---------------------------- MODULE Spec2Model ----------------------------
(***************************************************************************)
(* A model of the school-scraper pipeline:                                 *)
(*   - the bounded discovery client            (src/step1.py)              *)
(*   - the name filter                         (src/step1.5.py,            *)
(*                                              src/step2_streaming.py)    *)
(*   - the priority-driven site crawler        (src/step2.py)              *)
(*   - the per-lead driver of the pipeline     (src/streaming_pipeline.py) *)
(* Each component has its own specification; the variables of the other    *)
(* components stay at their idle values.                                   *)
(***************************************************************************)
EXTENDS Integers, Sequences, FiniteSets, TLC

VARIABLES
    \* ---- discovery client (step1.py SchoolSearcher and __main__) ----
    global_max_api_calls,   \* SchoolSearcher.global_max_api_calls (None or a number)
    total_api_calls,        \* stats['total_api_calls']
    seen_place_ids,         \* SchoolSearcher.seen_place_ids
    all_schools,            \* SchoolSearcher.all_schools
    schools,                \* search_county: the local list of the running county
    county_api_calls,       \* search_county: county_api_calls
    query_idx,              \* search_county: index of the next query of search_terms
    n_terms,                \* search_county: len(search_terms) after the slice
    per_county_api_limit,   \* search_county: argument per_county_api_limit
    sc_max_api_calls,       \* search_county: argument max_api_calls
    county_idx,             \* the driver's loop index over its counties
    n_counties,             \* the driver's number of counties to visit
    calls_per_county,       \* search_split_counties_equal_calls: calls_per_county
    args,                   \* the command line of __main__
    spc,                    \* position of the run
    driver,                 \* the driver method that is running
    output_file,            \* the output CSV: [written, rows]
    requests_issued,        \* history: requests.post calls made
    fed_ids,                \* history: place ids that reached the dedup test
    trimmed,                \* history: all_schools was cut to max_schools
    dup_skips,              \* history: some result was skipped as already seen
    \* ---- site crawler (step2.py PageDiscoverer.discover_pages) ----
    c_pc,                   \* position in discover_pages
    base_url,               \* argument base_url
    max_depth,              \* argument max_depth
    max_pages_per_school,   \* argument max_pages_per_school
    visited,                \* the visited set
    to_visit,               \* the heap, kept as the sorted list of its entries
    discovered_pages,       \* the recorded result candidates
    staff_pages_found,      \* the staff-like page counter
    returned,               \* the list discover_pages returns
    fetch_log,              \* history: the [url, depth] passed to safe_get, in order
    failed_urls,            \* history: the URLs whose fetch failed after the retries
    home_links,             \* history: the hrefs found on the page fetched at depth 0
    last_popped,            \* history: the entry popped by the last iteration
    \* ---- filter (step1.5.py filter_schools, step2_streaming.py filter_school) ----
    f_pc,                   \* position of the filter
    f_stage,                \* which of the two filters runs
    f_school,               \* the organization under test
    f_accepted,             \* the verdict
    \* ---- one organization through the pipeline ----
    p_pc,                   \* position in the processing of the organization
    p_entry,                \* the function that was called
    p_school,               \* the organization
    p_website,              \* its website field
    p_pages,                \* candidate pages discovery gave
    p_contents,             \* page contents collected
    p_contacts,             \* contacts returned
    p_fetches,              \* history: fetches attempted
    p_errors,               \* history: exceptions raised (and caught)
    \* ---- calculate_confidence_score on two rows (step7.py FinalCompiler) ----
    s_pc,                   \* position: the rows are given, the scores are computed
    s_a,                    \* row A
    s_b,                    \* row B
    s_score_a,              \* calculate_confidence_score(A)
    s_score_b,              \* calculate_confidence_score(B)
    \* ---- format_phone applied twice (step7.py FinalCompiler) ----
    ph_pc,                  \* position: no call, one call, two calls made
    ph_input,               \* the phone cell given
    ph_once,                \* format_phone(input)
    ph_twice,               \* format_phone(format_phone(input))
    \* ---- one run of compile_final_csv (step7.py FinalCompiler) ----
    k_pc,                   \* position in compile_final_csv
    k_input,                \* the frame read from the input CSV
    k_df,                   \* the frame given to deduplicate_contacts
    k_primary,              \* the frame after the primary drop_duplicates
    k_result,               \* the frame deduplicate_contacts returns
    k_file,                 \* the output CSV: written or not, header, rows
    \* ---- a stage that writes its results: step2.py, step3.py, streaming run ----
    st_stage,               \* "discovery", "collection" or "streaming"
    st_pc,                  \* position of the stage
    st_inputs,              \* rows of the input CSV, or schools the generator yields
    st_idx,                 \* inputs taken so far
    st_results,             \* all_pages / all_content / contacts with an email
    st_no_email,            \* streaming: contacts without an email
    st_files,               \* per file name: the number of data rows written, None if no file
    st_exit,                \* exit status of the process, None while it runs
    \* ---- one call of collect_page_content (step3.py ContentCollector) ----
    cc_pc,                  \* position in collect_page_content
    cc_max_retries,         \* self.max_retries
    cc_use_selenium,        \* self.use_selenium
    cc_attempt,             \* attempts of safe_get made
    cc_response,            \* markup of the plain HTTP response, NoMarkup before it
    cc_html_selenium,       \* what fetch_with_selenium returned, NoMarkup for None
    cc_selenium_calls,      \* history: calls of fetch_with_selenium
    cc_result,              \* the dictionary returned, or the failure None
    \* ---- one call of safe_get (step2.py PageDiscoverer, step3.py ContentCollector) ----
    sg_pc,                  \* "loop", or how the call ended: "returned", "raised", "none"
    sg_max_retries,         \* self.max_retries
    sg_attempt,             \* the loop variable attempt
    sg_outcomes,            \* history: the outcome of each requests.get, in order
    sg_sleeps,              \* history: the arguments of time.sleep, in order
    \* ---- the link step of one iteration of discover_pages (step2.py lines 289-303) ----
    lk_pc,                  \* "fetched" after the page is recorded, then "pushed"
    lk_base_url,            \* base_url, the homepage
    lk_current_url,         \* current_url, the page fetched
    lk_below_limits,        \* depth < max_depth and len(discovered_pages) < max_pages_per_school
    lk_hrefs,               \* the href attributes of the a elements of the page
    lk_pushed,              \* history: [href, link] for every link pushed onto to_visit
    \* ---- one search_county of the streaming SchoolSearcher (step1_streaming.py) ----
    ss_pc,                  \* "query", "results", "page" or "done"
    ss_global_max_api_calls, \* self.global_max_api_calls, None for no cap
    ss_total_api_calls,     \* self.stats['total_api_calls']
    ss_queries_left,        \* search terms not yet tried
    ss_results_left,        \* results of the current response not yet parsed
    ss_next_page_token,     \* the current response carries a next_page_token
    ss_requests,            \* history: the number of requests.get calls issued
    \* ---- one call of LLMParser.chunk_html (step5.py) ----
    ch_pc,                  \* "call" before the call, "done" after it
    ch_html,                \* the argument html
    ch_max_chunk_size,      \* the argument max_chunk_size
    ch_chunks,              \* the list returned
    \* ---- StreamingPipeline.run with the contacts themselves (streaming_pipeline.py) ----
    rn_pc,                  \* "generator", "lead" or "done"
    rn_schools_left,        \* schools the generator still yields
    rn_school_name,         \* school.name of the lead in process
    rn_pages_left,          \* collected pages of the lead not yet parsed
    rn_lead_contacts,       \* all_contacts of process_single_lead
    rn_all_contacts,        \* self.all_contacts
    rn_written              \* the rows written to the two final files, in order

searchVars == <<global_max_api_calls, total_api_calls, seen_place_ids, all_schools,
                schools, county_api_calls, query_idx, n_terms, per_county_api_limit,
                sc_max_api_calls, county_idx, n_counties, calls_per_county, args,
                spc, driver, output_file, requests_issued, fed_ids, trimmed,
                dup_skips>>

crawlVars == <<c_pc, base_url, max_depth, max_pages_per_school, visited, to_visit,
               discovered_pages, staff_pages_found, returned, fetch_log, failed_urls, home_links,
               last_popped>>

filterVars == <<f_pc, f_stage, f_school, f_accepted>>

pipeVars == <<p_pc, p_entry, p_school, p_website, p_pages, p_contents, p_contacts,
              p_fetches, p_errors>>

scoreVars == <<s_pc, s_a, s_b, s_score_a, s_score_b>>

phoneVars == <<ph_pc, ph_input, ph_once, ph_twice>>

compileVars == <<k_pc, k_input, k_df, k_primary, k_result, k_file>>

stageVars == <<st_stage, st_pc, st_inputs, st_idx, st_results, st_no_email, st_files, st_exit>>

collectVars == <<cc_pc, cc_max_retries, cc_use_selenium, cc_attempt, cc_response,
                 cc_html_selenium, cc_selenium_calls, cc_result>>

retryVars == <<sg_pc, sg_max_retries, sg_attempt, sg_outcomes, sg_sleeps>>

linkVars == <<lk_pc, lk_base_url, lk_current_url, lk_below_limits, lk_hrefs, lk_pushed>>

streamSearchVars == <<ss_pc, ss_global_max_api_calls, ss_total_api_calls, ss_queries_left,
                      ss_results_left, ss_next_page_token, ss_requests>>

chunkVars == <<ch_pc, ch_html, ch_max_chunk_size, ch_chunks>>

runVars == <<rn_pc, rn_schools_left, rn_school_name, rn_pages_left, rn_lead_contacts,
             rn_all_contacts, rn_written>>

vars == <<searchVars, crawlVars, filterVars, pipeVars, scoreVars, phoneVars,
        compileVars, stageVars, collectVars, retryVars, linkVars, streamSearchVars,
        chunkVars, runVars>>

\* What an action of one component leaves alone.
nonSearchVars == <<crawlVars, filterVars, pipeVars, scoreVars, phoneVars, compileVars,
        stageVars, collectVars, retryVars, linkVars, streamSearchVars, chunkVars,
        runVars>>
nonCrawlVars == <<searchVars, filterVars, pipeVars, scoreVars, phoneVars, compileVars,
        stageVars, collectVars, retryVars, linkVars, streamSearchVars, chunkVars,
        runVars>>
nonFilterVars == <<searchVars, crawlVars, pipeVars, scoreVars, phoneVars, compileVars,
        stageVars, collectVars, retryVars, linkVars, streamSearchVars, chunkVars,
        runVars>>
nonPipeVars == <<searchVars, crawlVars, filterVars, scoreVars, phoneVars, compileVars,
        stageVars, collectVars, retryVars, linkVars, streamSearchVars, chunkVars,
        runVars>>
nonScoreVars == <<searchVars, crawlVars, filterVars, pipeVars, phoneVars, compileVars,
        stageVars, collectVars, retryVars, linkVars, streamSearchVars, chunkVars,
        runVars>>
nonPhoneVars == <<searchVars, crawlVars, filterVars, pipeVars, scoreVars, compileVars,
        stageVars, collectVars, retryVars, linkVars, streamSearchVars, chunkVars,
        runVars>>
nonCompileVars == <<searchVars, crawlVars, filterVars, pipeVars, scoreVars, phoneVars,
        stageVars, collectVars, retryVars, linkVars, streamSearchVars, chunkVars,
        runVars>>
nonStageVars == <<searchVars, crawlVars, filterVars, pipeVars, scoreVars, phoneVars,
        compileVars, collectVars, retryVars, linkVars, streamSearchVars, chunkVars,
        runVars>>
nonCollectVars == <<searchVars, crawlVars, filterVars, pipeVars, scoreVars, phoneVars,
        compileVars, stageVars, retryVars, linkVars, streamSearchVars, chunkVars,
        runVars>>
nonRetryVars == <<searchVars, crawlVars, filterVars, pipeVars, scoreVars, phoneVars,
        compileVars, stageVars, collectVars, linkVars, streamSearchVars, chunkVars,
        runVars>>
nonLinkVars == <<searchVars, crawlVars, filterVars, pipeVars, scoreVars, phoneVars,
        compileVars, stageVars, collectVars, retryVars, streamSearchVars, chunkVars,
        runVars>>
nonStreamSearchVars == <<searchVars, crawlVars, filterVars, pipeVars, scoreVars,
        phoneVars, compileVars, stageVars, collectVars, retryVars, linkVars, chunkVars,
        runVars>>
nonChunkVars == <<searchVars, crawlVars, filterVars, pipeVars, scoreVars, phoneVars,
        compileVars, stageVars, collectVars, retryVars, linkVars, streamSearchVars,
        runVars>>
nonRunVars == <<searchVars, crawlVars, filterVars, pipeVars, scoreVars, phoneVars,
        compileVars, stageVars, collectVars, retryVars, linkVars, streamSearchVars,
        chunkVars>>

\* Python's None for the optional integer arguments.
None == -1

Min(a, b) == IF a <= b THEN a ELSE b
Max(a, b) == IF a >= b THEN a ELSE b

(***************************************************************************)
(* Bounds of the discovery model.                                          *)
(***************************************************************************)
MaxBudget == 3            \* global budgets 0..MaxBudget are tried
NumCounties == 2          \* counties in the county list
MaxPlacesPerResponse == 2 \* places in one search response

\* src/step1.py:89-106: the 16 query templates of search_county.
NumSearchTerms == 16
\* src/step1.py:612-613: __main__ calls the split mode with 5 and 5.
CountiesToPick == 5
CallsPerCounty == 5

(***************************************************************************)
(* Places returned by the places-search API.  detected_state and addr_tx   *)
(* are what _extract_state_and_county and the address patterns yield.      *)
(***************************************************************************)
Places ==
    { [id |-> "p1", detected_state |-> "TX", addr_tx |-> FALSE],
      [id |-> "p2", detected_state |-> "",   addr_tx |-> TRUE],
      [id |-> "p3", detected_state |-> "OK", addr_tx |-> FALSE],
      [id |-> "",   detected_state |-> "texas", addr_tx |-> FALSE] }

RECURSIVE SeqsUpTo(_, _)
SeqsUpTo(S, n) ==
    IF n = 0 THEN { <<>> }
    ELSE LET shorter == SeqsUpTo(S, n - 1)
         IN  shorter \cup { Append(s, x) : s \in shorter, x \in S }

\* A response: the request failed (exception, timeout, non-200 status, no
\* 'places' key), or it carries a list of places.
Responses ==
    { [ok |-> FALSE, places |-> <<>>] }
      \cup { [ok |-> TRUE, places |-> ps] : ps \in SeqsUpTo(Places, MaxPlacesPerResponse) }

\* _hit_global_limit
HitGlobalLimitOff(gmax, calls) == gmax # None /\ calls > gmax
HitGlobalLimit(gmax, calls) == gmax # None /\ calls >= gmax

\* _is_texas_result: the detected state is 'tx' or 'texas' (lower-cased), or
\* the formatted address matches one of the Texas patterns.
IsTexasResult(detected_state, addr_tx) ==
    \/ detected_state \in {"TX", "tx", "texas", "Texas"}
    \/ addr_tx

\* search_county lines 140-175: the loop over the places of one response.
\* st = [seen, schools, fed, dups]
DedupAddNoCheck(st, place) ==
    [seen |-> st.seen \cup {place.id},
     schools |-> Append(st.schools, [place_id |-> place.id]),
     fed |-> st.fed \cup {place.id},
     dups |-> st.dups]
\* lines 151-175: a place already seen is skipped, a new one is recorded.
DedupAdd(st, place) ==
    IF place.id \in st.seen
    THEN [st EXCEPT !.fed = @ \cup {place.id}, !.dups = TRUE]
    ELSE [seen |-> st.seen \cup {place.id},
          schools |-> Append(st.schools, [place_id |-> place.id]),
          fed |-> st.fed \cup {place.id},
          dups |-> st.dups]

RECURSIVE ProcessPlaces(_, _)
ProcessPlaces(st, places) ==
    IF places = <<>> THEN st
    ELSE LET place == Head(places)
             next == IF ~IsTexasResult(place.detected_state, place.addr_tx)
                     THEN st
                     ELSE DedupAdd(st, place)
         IN  ProcessPlaces(next, Tail(places))


(***************************************************************************)
(* The discovery run: __main__ of step1.py.  It builds the searcher, runs  *)
(* the split mode (--split-five-counties) or the batch mode, and then      *)
(* search_all_counties, whose call sits after the if/elif chain.           *)
(***************************************************************************)
OptArg(S) == {None} \cup S

MainArgs ==
    [ split_five_counties : BOOLEAN,
      batch_counties      : {0, 1},
      max_counties        : OptArg({1}),
      max_search_terms    : OptArg({1}),
      max_api_calls       : OptArg({2}),
      max_schools         : OptArg({1}) ]

SearchInit ==
    /\ global_max_api_calls \in OptArg(0..MaxBudget)
    /\ args \in MainArgs
    /\ total_api_calls = 0
    /\ seen_place_ids = {}
    /\ all_schools = <<>>
    /\ schools = <<>>
    /\ county_api_calls = 0
    /\ query_idx = 1
    /\ n_terms = 0
    /\ per_county_api_limit = None
    /\ sc_max_api_calls = None
    /\ county_idx = 1
    /\ n_counties = 0
    /\ calls_per_county = 0
    /\ spc = "main"
    /\ driver = "none"
    /\ output_file = [written |-> FALSE, rows |-> <<>>]
    /\ requests_issued = 0
    /\ fed_ids = {}
    /\ trimmed = FALSE
    /\ dup_skips = FALSE

\* search_county lines 85-111: the locals at entry.
EnterSearchCounty(max_search_terms, max_api_calls, limit) ==
    /\ schools' = <<>>
    /\ county_api_calls' = 0
    /\ query_idx' = 1
    /\ n_terms' = IF max_search_terms # None
                  THEN Min(NumSearchTerms, Max(0, max_search_terms))
                  ELSE NumSearchTerms
    /\ sc_max_api_calls' = max_api_calls
    /\ per_county_api_limit' = limit
    /\ spc' = "query"

\* search_county lines 114-117 and 186-188: the run-wide limits.
RunLimitReached(calls) ==
    \/ (sc_max_api_calls # None /\ calls >= sc_max_api_calls)
    \/ HitGlobalLimit(global_max_api_calls, calls)

\* search_county lines 113-122 and 193: the loop ends (no query left, or one
\* of the breaks before the request) and the method returns.
SearchCountyReturn ==
    /\ UNCHANGED nonSearchVars
    /\ spc = "query"
    /\ \/ query_idx > n_terms
       \/ RunLimitReached(total_api_calls)
       \/ (per_county_api_limit # None /\ county_api_calls >= per_county_api_limit)
    /\ spc' = "returned"
    /\ UNCHANGED <<global_max_api_calls, total_api_calls, seen_place_ids, all_schools,
                   schools, county_api_calls, query_idx, n_terms, per_county_api_limit,
                   sc_max_api_calls, county_idx, n_counties, calls_per_county, args,
                   driver, output_file, requests_issued, fed_ids, trimmed, dup_skips>>

\* search_county lines 113-191: one iteration that issues its request.
SearchCountyQuery ==
    /\ UNCHANGED nonSearchVars
    /\ spc = "query"
    /\ query_idx <= n_terms
    /\ ~RunLimitReached(total_api_calls)
    /\ ~(per_county_api_limit # None /\ county_api_calls >= per_county_api_limit)
    /\ total_api_calls' = total_api_calls + 1
    /\ county_api_calls' = county_api_calls + 1
    /\ requests_issued' = requests_issued + 1
    /\ \E response \in Responses :
          LET st == ProcessPlaces([seen |-> seen_place_ids, schools |-> schools,
                                   fed |-> fed_ids, dups |-> dup_skips],
                                  IF response.ok THEN response.places ELSE <<>>)
          IN  /\ seen_place_ids' = st.seen
              /\ schools' = st.schools
              /\ fed_ids' = st.fed
              /\ dup_skips' = st.dups
    /\ IF \/ RunLimitReached(total_api_calls')
          \/ (per_county_api_limit # None /\ county_api_calls' >= per_county_api_limit)
       THEN spc' = "returned" /\ query_idx' = query_idx
       ELSE spc' = "query" /\ query_idx' = query_idx + 1
    /\ UNCHANGED <<global_max_api_calls, all_schools, n_terms, per_county_api_limit,
                   sc_max_api_calls, county_idx, n_counties, calls_per_county, args,
                   driver, output_file, trimmed>>

\* search_split_counties_equal_calls lines 387-397: the per-county share.
SplitCallsPerCounty(n_selected, wanted) ==
    IF global_max_api_calls # None /\ global_max_api_calls < n_selected * wanted
    THEN Max(1, global_max_api_calls \div n_selected)
    ELSE wanted

\* search_batch_counties lines 267-272: the number of counties of the batch.
BatchCount(batch_size) ==
    IF batch_size <= 0 \/ batch_size >= NumCounties THEN NumCounties ELSE batch_size

\* search_all_counties lines 452-453: counties[:max(0, max_counties)].
AllCount(max_counties) ==
    IF max_counties # None THEN Min(NumCounties, Max(0, max_counties)) ELSE NumCounties

\* __main__ lines 606-622: the first driver is entered.
MainDispatch ==
    /\ UNCHANGED nonSearchVars
    /\ spc = "main"
    /\ IF args.split_five_counties
       THEN /\ driver' = "split"
            /\ n_counties' = Min(CountiesToPick, NumCounties)
            /\ calls_per_county' =
                   SplitCallsPerCounty(Min(CountiesToPick, NumCounties), CallsPerCounty)
       ELSE /\ driver' = "batch"
            /\ n_counties' = BatchCount(args.batch_counties)
            /\ calls_per_county' = 0
    /\ county_idx' = 1
    /\ spc' = "loop"
    /\ UNCHANGED <<global_max_api_calls, total_api_calls, seen_place_ids, all_schools,
                   schools, county_api_calls, query_idx, n_terms, per_county_api_limit,
                   sc_max_api_calls, args, output_file, requests_issued, fed_ids,
                   trimmed, dup_skips>>

\* The break tests at the head of each driver's county loop:
\*   split lines 401-413, batch lines 277-279, all lines 468-470.
LoopBreaks ==
    CASE driver = "split" ->
            \/ calls_per_county <= 0
            \/ HitGlobalLimit(global_max_api_calls, total_api_calls)
            \/ (global_max_api_calls # None
                  /\ global_max_api_calls - total_api_calls <= 0)
      [] driver = "batch" -> HitGlobalLimit(global_max_api_calls, total_api_calls)
      [] driver = "all" ->
            args.max_api_calls # None /\ total_api_calls >= args.max_api_calls
      [] OTHER -> FALSE

DriverUnchanged ==
    UNCHANGED <<global_max_api_calls, total_api_calls, seen_place_ids, all_schools,
                county_idx, n_counties, calls_per_county, args, driver, output_file,
                requests_issued, fed_ids, trimmed, dup_skips>>

\* search_split_counties_equal_calls lines 400-427: the next county is searched
\* with at most min(calls_per_county, remaining global budget) calls.
SplitNextCounty ==
    /\ UNCHANGED nonSearchVars
    /\ spc = "loop" /\ driver = "split"
    /\ county_idx <= n_counties
    /\ ~LoopBreaks
    /\ EnterSearchCounty(None, None,
          IF global_max_api_calls # None
          THEN Min(calls_per_county, global_max_api_calls - total_api_calls)
          ELSE calls_per_county)
    /\ DriverUnchanged

\* search_batch_counties lines 276-286.
BatchNextCounty ==
    /\ UNCHANGED nonSearchVars
    /\ spc = "loop" /\ driver = "batch"
    /\ county_idx <= n_counties
    /\ ~LoopBreaks
    /\ EnterSearchCounty(None, None, None)
    /\ DriverUnchanged

\* search_all_counties lines 467-478.
AllNextCounty ==
    /\ UNCHANGED nonSearchVars
    /\ spc = "loop" /\ driver = "all"
    /\ county_idx <= n_counties
    /\ ~LoopBreaks
    /\ EnterSearchCounty(args.max_search_terms, args.max_api_calls, None)
    /\ DriverUnchanged

\* The county loop of the running driver ends: no county left, or a break.
LoopExit ==
    /\ UNCHANGED nonSearchVars
    /\ spc = "loop"
    /\ county_idx > n_counties \/ LoopBreaks
    /\ spc' = "save"
    /\ UNCHANGED <<global_max_api_calls, total_api_calls, seen_place_ids, all_schools,
                   schools, county_api_calls, query_idx, n_terms, per_county_api_limit,
                   sc_max_api_calls, county_idx, n_counties, calls_per_county, args,
                   driver, output_file, requests_issued, fed_ids, trimmed, dup_skips>>

AfterCountyUnchanged ==
    UNCHANGED <<global_max_api_calls, total_api_calls, seen_place_ids, schools,
                county_api_calls, query_idx, n_terms, per_county_api_limit,
                sc_max_api_calls, n_counties, calls_per_county, args, driver,
                output_file, requests_issued, fed_ids, dup_skips>>

\* search_split_counties_equal_calls lines 428-431.
SplitAfterCounty ==
    /\ UNCHANGED nonSearchVars
    /\ spc = "returned" /\ driver = "split"
    /\ all_schools' = all_schools \o schools
    /\ county_idx' = county_idx + 1
    /\ spc' = "loop"
    /\ UNCHANGED trimmed
    /\ AfterCountyUnchanged

\* search_batch_counties lines 288-295.
BatchAfterCounty ==
    /\ UNCHANGED nonSearchVars
    /\ spc = "returned" /\ driver = "batch"
    /\ all_schools' = all_schools \o schools
    /\ county_idx' = county_idx + 1
    /\ spc' = IF HitGlobalLimit(global_max_api_calls, total_api_calls)
              THEN "save" ELSE "loop"
    /\ UNCHANGED trimmed
    /\ AfterCountyUnchanged

\* search_all_counties lines 479-491: extend, then trim to max_schools and stop.
AllAfterCounty ==
    /\ UNCHANGED nonSearchVars
    /\ spc = "returned" /\ driver = "all"
    /\ LET extended == all_schools \o schools
       IN  IF args.max_schools # None /\ Len(extended) >= args.max_schools
           THEN /\ all_schools' = SubSeq(extended, 1, args.max_schools)
                /\ trimmed' = (trimmed \/ Len(extended) > args.max_schools)
                /\ spc' = "save"
           ELSE /\ all_schools' = extended
                /\ trimmed' = trimmed
                /\ spc' = "loop"
    /\ county_idx' = county_idx + 1
    /\ AfterCountyUnchanged

\* _save_to_csv lines 501-522, at the end of the split or batch driver; __main__
\* line 647 then calls search_all_counties on the same searcher.
SaveThenSearchAll ==
    /\ UNCHANGED nonSearchVars
    /\ spc = "save" /\ driver \in {"split", "batch"}
    /\ output_file' = [written |-> TRUE, rows |-> all_schools]
    /\ driver' = "all"
    /\ n_counties' = AllCount(args.max_counties)
    /\ county_idx' = 1
    /\ spc' = "loop"
    /\ UNCHANGED <<global_max_api_calls, total_api_calls, seen_place_ids, all_schools,
                   schools, county_api_calls, query_idx, n_terms, per_county_api_limit,
                   sc_max_api_calls, calls_per_county, args, requests_issued, fed_ids,
                   trimmed, dup_skips>>

\* _save_to_csv at the end of search_all_counties (line 498): the run is over.
SaveAndFinish ==
    /\ UNCHANGED nonSearchVars
    /\ spc = "save" /\ driver = "all"
    /\ output_file' = [written |-> TRUE, rows |-> all_schools]
    /\ spc' = "done"
    /\ UNCHANGED <<global_max_api_calls, total_api_calls, seen_place_ids, all_schools,
                   schools, county_api_calls, query_idx, n_terms, per_county_api_limit,
                   sc_max_api_calls, county_idx, n_counties, calls_per_county, args,
                   driver, requests_issued, fed_ids, trimmed, dup_skips>>

\* __main__ lines 656-661: KeyboardInterrupt or an exception leaves the try
\* block at some point of a driver; either handler calls _save_to_csv, which
\* writes self.all_schools.
InterruptedOrFailed ==
    /\ UNCHANGED nonSearchVars
    /\ spc \in {"loop", "query", "returned", "save"}
    /\ output_file' = [written |-> TRUE, rows |-> all_schools]
    /\ spc' = "interrupted"
    /\ UNCHANGED <<global_max_api_calls, total_api_calls, seen_place_ids, all_schools,
                   schools, county_api_calls, query_idx, n_terms, per_county_api_limit,
                   sc_max_api_calls, county_idx, n_counties, calls_per_county, args,
                   driver, requests_issued, fed_ids, trimmed, dup_skips>>

SearchNext ==
    \/ MainDispatch
    \/ SplitNextCounty
    \/ BatchNextCounty
    \/ AllNextCounty
    \/ LoopExit
    \/ SearchCountyQuery
    \/ SearchCountyReturn
    \/ SplitAfterCounty
    \/ BatchAfterCounty
    \/ AllAfterCounty
    \/ SaveThenSearchAll
    \/ SaveAndFinish
    \/ InterruptedOrFailed


(***************************************************************************)
(* Claims about the discovery client.                                      *)
(***************************************************************************)
PlaceIds(list) == { list[i].place_id : i \in 1..Len(list) }
NoTwoSharePlaceId(list) ==
    \A i, j \in 1..Len(list) : list[i].place_id = list[j].place_id => i = j

\* C1: with a global call budget N, a run of __main__ (split or batch mode, then
\* search_all_counties) issues at most N places-search requests, failed
\* requests included.
C1_BudgetRespected ==
    global_max_api_calls # None => requests_issued <= global_max_api_calls

\* C1 witness: a finished run that spent a positive budget to the last call.
C1_Witness ==
    /\ spc = "done"
    /\ global_max_api_calls # None /\ global_max_api_calls > 0
    /\ requests_issued = global_max_api_calls

Contains(s, k) ==
    \E i \in 1..(Len(s) - Len(k) + 1) : SubSeq(s, i, i + Len(k) - 1) = k

\* re.search(r'k$', s) for a literal k
EndsWith(s, k) ==
    Len(s) >= Len(k) /\ SubSeq(s, Len(s) - Len(k) + 1, Len(s)) = k

\* any(k in s for k in keywords)
AnyIn(keywords, s) == \E i \in 1..Len(keywords) : Contains(s, keywords[i])

\* the number of keywords of the list that occur in s
RECURSIVE CountIn(_, _)
CountIn(keywords, s) ==
    IF keywords = <<>> THEN 0
    ELSE (IF Contains(s, Head(keywords)) THEN 1 ELSE 0) + CountIn(Tail(keywords), s)

UpperCase == <<"A","B","C","D","E","F","G","H","I","J","K","L","M","N","O","P","Q","R","S","T","U","V","W","X","Y","Z">>
LowerCase == <<"a","b","c","d","e","f","g","h","i","j","k","l","m","n","o","p","q","r","s","t","u","v","w","x","y","z">>

\* str.lower on one character and on a string
LowerChar(c) ==
    IF \E i \in 1..Len(UpperCase) : UpperCase[i] = c
    THEN LowerCase[CHOOSE i \in 1..Len(UpperCase) : UpperCase[i] = c]
    ELSE c
Lower(s) == [i \in 1..Len(s) |-> LowerChar(s[i])]

\* The characters of the URLs of the model in code-point order, for the
\* comparison of heap entries that tie on priority and depth.
CodePoints == 
    <<"#","-",".","/",":","C","a","b","c","d","e","f","g","h","i","j","k","l","m","n","o","p","q","r","s","t","u","v","w","x","y","z">>
Ord(c) == CHOOSE i \in 1..Len(CodePoints) : CodePoints[i] = c

\* Python's s < t on strings
RECURSIVE StrLess(_, _)
StrLess(s, t) ==
    IF t = <<>> THEN FALSE
    ELSE IF s = <<>> THEN TRUE
    ELSE IF Head(s) = Head(t) THEN StrLess(Tail(s), Tail(t))
    ELSE Ord(Head(s)) < Ord(Head(t))

\* The text of the URL components used in the model.
Text ==
    [ t \in {"", "http", "s.org", "facebook.com", "/", "/staff", "/faculty", "/about", "/contact-staff", "/facebook.com/page", "/Contact", "top", "staff", "/news.pdf"} |->
        CASE t = "" -> <<>>
          [] t = "http" -> <<"h","t","t","p">>
          [] t = "s.org" -> <<"s",".","o","r","g">>
          [] t = "facebook.com" -> <<"f","a","c","e","b","o","o","k",".","c","o","m">>
          [] t = "/" -> <<"/">>
          [] t = "/staff" -> <<"/","s","t","a","f","f">>
          [] t = "/faculty" -> <<"/","f","a","c","u","l","t","y">>
          [] t = "/about" -> <<"/","a","b","o","u","t">>
          [] t = "/contact-staff" -> <<"/","c","o","n","t","a","c","t","-","s","t","a","f","f">>
          [] t = "/facebook.com/page" -> <<"/","f","a","c","e","b","o","o","k",".","c","o","m","/","p","a","g","e">>
          [] t = "/Contact" -> <<"/","C","o","n","t","a","c","t">>
          [] t = "top" -> <<"t","o","p">>
          [] t = "staff" -> <<"s","t","a","f","f">>
          [] t = "/news.pdf" -> <<"/","n","e","w","s",".","p","d","f">> ]

(***************************************************************************)
(* PageDiscoverer.__init__ (step2.py lines 22-56): the keyword lists.      *)
(***************************************************************************)
high_value_keywords ==
    << <<"s","t","a","f","f">>,
       <<"f","a","c","u","l","t","y">>,
       <<"d","i","r","e","c","t","o","r","y">>,
       <<"a","d","m","i","n","i","s","t","r","a","t","i","o","n">>,
       <<"a","d","m","i","n">>,
       <<"t","e","a","m">>,
       <<"l","e","a","d","e","r","s","h","i","p">>,
       <<"o","u","r","-","t","e","a","m">>,
       <<"w","h","o","-","w","e","-","a","r","e">>,
       <<"m","e","e","t","-","o","u","r">>,
       <<"p","e","r","s","o","n","n","e","l">>,
       <<"b","o","a","r","d">>,
       <<"p","r","i","n","c","i","p","a","l">>,
       <<"s","u","p","e","r","i","n","t","e","n","d","e","n","t">> >>
support_value_keywords ==
    << <<"a","b","o","u","t">>,
       <<"m","i","s","s","i","o","n">>,
       <<"v","i","s","i","o","n">>,
       <<"h","i","s","t","o","r","y">> >>
low_value_keywords ==
    << <<"c","o","n","t","a","c","t">>,
       <<"i","n","f","o">>,
       <<"l","o","c","a","t","i","o","n">> >>
zero_priority_keywords ==
    << <<"c","o","n","t","a","c","t">>,
       <<"c","o","n","t","a","c","t","-","u","s">>,
       <<"c","o","n","t","a","c","t","u","s">>,
       <<"c","o","n","t","a","c","t","_","u","s">>,
       <<"a","d","m","i","s","s","i","o","n">>,
       <<"a","d","m","i","s","s","i","o","n","s">>,
       <<"a","p","p","l","y">>,
       <<"e","n","r","o","l","l","m","e","n","t">>,
       <<"e","n","r","o","l","l">> >>
bad_url_keywords ==
    << <<"c","a","l","e","n","d","a","r">>,
       <<"a","t","h","l","e","t","i","c">>,
       <<"s","p","o","r","t","s">>,
       <<"a","d","m","i","s","s","i","o","n">>,
       <<"a","p","p","l","y">>,
       <<"e","n","r","o","l","l">>,
       <<"e","v","e","n","t">>,
       <<"n","e","w","s">>,
       <<"b","l","o","g">>,
       <<"l","u","n","c","h">>,
       <<"m","e","n","u">>,
       <<"f","o","r","m","s">>,
       <<"d","o","w","n","l","o","a","d">>,
       <<"l","i","n","k","t","r",".","e","e">>,
       <<"f","a","c","e","b","o","o","k",".","c","o","m">>,
       <<"i","n","s","t","a","g","r","a","m",".","c","o","m">>,
       <<"t","w","i","t","t","e","r",".","c","o","m">>,
       <<"y","o","u","t","u","b","e",".","c","o","m">>,
       <<"v","i","m","e","o",".","c","o","m">>,
       <<"d","o","c","s",".","g","o","o","g","l","e",".","c","o","m">>,
       <<"d","r","i","v","e",".","g","o","o","g","l","e",".","c","o","m">> >>
bad_domains ==
    << <<"l","i","n","k","t","r",".","e","e">>,
       <<"f","a","c","e","b","o","o","k",".","c","o","m">>,
       <<"i","n","s","t","a","g","r","a","m",".","c","o","m">>,
       <<"t","w","i","t","t","e","r",".","c","o","m">>,
       <<"y","o","u","t","u","b","e",".","c","o","m">>,
       <<"v","i","m","e","o",".","c","o","m">>,
       <<"d","o","c","s",".","g","o","o","g","l","e",".","c","o","m">>,
       <<"d","r","i","v","e",".","g","o","o","g","l","e",".","c","o","m">> >>
\* score_page_priority line 160
hash_keywords ==
    << <<"t","e","a","m">>,
       <<"s","t","a","f","f">>,
       <<"f","a","c","u","l","t","y">>,
       <<"l","e","a","d","e","r","s","h","i","p">>,
       <<"d","i","r","e","c","t","o","r","y">>,
       <<"a","d","m","i","n">> >>
\* discover_pages line 227
staff_keywords_in_url ==
    << <<"s","t","a","f","f">>,
       <<"f","a","c","u","l","t","y">>,
       <<"d","i","r","e","c","t","o","r","y">>,
       <<"a","d","m","i","n","i","s","t","r","a","t","i","o","n">>,
       <<"a","d","m","i","n">>,
       <<"t","e","a","m">>,
       <<"l","e","a","d","e","r","s","h","i","p">>,
       <<"p","e","r","s","o","n","n","e","l">> >>
\* extract_links lines 88-89
important_fragment_keywords ==
    << <<"t","e","a","m">>,
       <<"s","t","a","f","f">>,
       <<"f","a","c","u","l","t","y">>,
       <<"l","e","a","d","e","r","s","h","i","p">>,
       <<"d","i","r","e","c","t","o","r","y">>,
       <<"c","o","n","t","a","c","t">>,
       <<"a","b","o","u","t">>,
       <<"a","d","m","i","n","i","s","t","r","a","t">>,
       <<"o","f","f","i","c","e">> >>
\* extract_links lines 115-120: the patterns anchored at the end, and the others
skip_suffixes ==
    << <<".","p","d","f">>,
       <<".","j","p","g">>,
       <<".","p","n","g">>,
       <<".","g","i","f">>,
       <<".","j","p","e","g">>,
       <<".","d","o","c">>,
       <<".","d","o","c","x">>,
       <<".","z","i","p">>,
       <<".","m","p","4">>,
       <<".","m","p","3">> >>
skip_substrings ==
    << <<"/","w","p","-","a","d","m","i","n","/">>,
       <<"/","w","p","-","l","o","g","i","n">>,
       <<"/","w","p","-","c","o","n","t","e","n","t","/","u","p","l","o","a","d","s","/">>,
       <<"j","a","v","a","s","c","r","i","p","t",":">>,
       <<"m","a","i","l","t","o",":">>,
       <<"t","e","l",":">> >>

(***************************************************************************)
(* URLs.  A URL is the record of its parts; UrlChars is its string.        *)
(***************************************************************************)
Url(netloc, path, fragment) ==
    [scheme |-> "http", netloc |-> netloc, path |-> path, fragment |-> fragment]
EmptyUrl == [scheme |-> "", netloc |-> "", path |-> "", fragment |-> ""]

UrlChars(u) ==
    IF u = EmptyUrl THEN <<>>
    ELSE Text[u.scheme] \o <<":", "/", "/">> \o Text[u.netloc] \o Text[u.path]
           \o (IF u.fragment # "" THEN <<"#">> \o Text[u.fragment] ELSE <<>>)

\* Bounds of the crawl model.
MaxLinks == 2        \* links on one page
MaxPagesCap == 4     \* max_pages_per_school ranges over 0..MaxPagesCap
MaxDepthCap == 2     \* max_depth ranges over 0..MaxDepthCap

\* discover_pages line 302: scored_links[:75]
TopLinksLimit == 75
\* discover_pages lines 239, 286 and 317: the staff page cap and the final cut
StaffPagesCap == 3
FinalPagesLimit == 3

\* The homepages tried: none, a plain one, one whose URL has a zero-priority
\* keyword.
Homepages ==
    { EmptyUrl, Url("s.org", "/", ""), Url("s.org", "/Contact", ""),
      Url("s.org", "/faculty", "") }

\* The hrefs found on pages, after urljoin.
Hrefs ==
    { Url("s.org", "/staff", ""),
      Url("s.org", "/faculty", ""),
      Url("s.org", "/about", ""),
      Url("s.org", "/contact-staff", ""),
      Url("s.org", "/facebook.com/page", ""),
      Url("facebook.com", "/", ""),
      Url("s.org", "/about", "staff"),
      Url("s.org", "/staff", "top"),
      Url("s.org", "/Contact", "") }

\* What score_page_content reads from a page: the number of mailto links, the
\* number of matches of the name pattern, a high-value keyword in a heading.
Profiles ==
    { [mailto |-> 0, names |-> 0, heading |-> FALSE],
      [mailto |-> 2, names |-> 0, heading |-> TRUE] }

\* What a fetch can bring: a failure after the retries of safe_get, or a page.
FailedPage == [ok |-> FALSE, hrefs |-> {}, profile |-> CHOOSE p \in Profiles : p.mailto = 0]
Pages ==
    { FailedPage } \cup
    [ ok : {TRUE},
      hrefs : { L \in SUBSET Hrefs : Cardinality(L) <= MaxLinks },
      profile : Profiles ]

(***************************************************************************)
(* score_page_priority (lines 128-164)                                     *)
(***************************************************************************)
\* url_lower.split('#')[1]: the text between the first '#' and the next one
HashPart(s) ==
    LET first == CHOOSE i \in 1..Len(s) : s[i] = "#" /\ \A j \in 1..(i - 1) : s[j] # "#"
        rest == SubSeq(s, first + 1, Len(s))
    IN  IF \E i \in 1..Len(rest) : rest[i] = "#"
        THEN SubSeq(rest, 1, (CHOOSE i \in 1..Len(rest) :
                                 rest[i] = "#" /\ \A j \in 1..(i - 1) : rest[j] # "#") - 1)
        ELSE rest

score_no_zero_rule(url) ==
    LET url_lower == Lower(UrlChars(url))
        netloc == Lower(Text[url.netloc])
    IN  25 * CountIn(high_value_keywords, url_lower)
          + 10 * CountIn(support_value_keywords, url_lower)
          + 5 * CountIn(low_value_keywords, url_lower)
          - 25 * CountIn(bad_url_keywords, url_lower)
          - (IF AnyIn(bad_domains, netloc) THEN 40 ELSE 0)
          + (IF Contains(url_lower, <<"#">>) /\ AnyIn(hash_keywords, HashPart(url_lower))
             THEN 20 ELSE 0)

score_page_priority(url) ==
    LET url_lower == Lower(UrlChars(url))
    IN  IF AnyIn(zero_priority_keywords, url_lower) THEN 0
        ELSE score_no_zero_rule(url)

\* score_page_content (lines 166-195)
score_page_content(profile) ==
    (IF profile.mailto >= 5 THEN 40
     ELSE IF profile.mailto >= 2 THEN 25
     ELSE IF profile.mailto = 1 THEN 10 ELSE 0)
    + (IF profile.names >= 10 THEN 30 ELSE IF profile.names >= 5 THEN 15 ELSE 0)
    + (IF profile.heading THEN 10 ELSE 0)

\* discover_pages lines 271-272: the URL has a staff keyword
IsStaffUrl(url) == AnyIn(staff_keywords_in_url, Lower(UrlChars(url)))

\* The URLs of the model, and the values of the functions above on them
\* (computed once).
AllUrls == Homepages \cup Hrefs \cup { [h EXCEPT !.fragment = ""] : h \in Hrefs }
PriorityOf == [u \in AllUrls |-> score_page_priority(u)]
StaffUrls == { u \in AllUrls : IsStaffUrl(u) }
UrlLess == { pair \in AllUrls \X AllUrls : StrLess(UrlChars(pair[1]), UrlChars(pair[2])) }

(***************************************************************************)
(* extract_links (lines 79-126)                                            *)
(***************************************************************************)
\* lines 102-112: the fragment is kept only if it has an important keyword;
\* the query is dropped.
CleanUrl(parsed) ==
    IF parsed.fragment # "" /\ AnyIn(important_fragment_keywords, Lower(Text[parsed.fragment]))
    THEN parsed
    ELSE [parsed EXCEPT !.fragment = ""]

\* lines 115-123
SkipText(text) ==
    \/ \E i \in 1..Len(skip_suffixes) : EndsWith(text, skip_suffixes[i])
    \/ AnyIn(skip_substrings, text)
SkipPattern(clean_url) == SkipText(Lower(UrlChars(clean_url)))

\* The clean URL of every href and whether a skip pattern drops it (computed once).
LinkOf == [h \in Hrefs |-> [clean |-> CleanUrl(h), skip |-> SkipPattern(CleanUrl(h))]]

extract_links_any_domain(base, hrefs) ==
    { LinkOf[h].clean : h \in { x \in hrefs : ~LinkOf[x].skip } }
extract_links(base, hrefs) ==
    { LinkOf[h].clean : h \in { x \in hrefs : x.netloc = base.netloc /\ ~LinkOf[x].skip } }

(***************************************************************************)
(* The heap of discover_pages: tuples (neg_priority, depth, url), compared *)
(* as Python compares tuples.  heappop returns the least entry, so the     *)
(* heap is kept as the sorted list of its entries.                         *)
(***************************************************************************)
Entry(neg, depth, url) == [neg |-> neg, depth |-> depth, url |-> url]

\* Entries compared as pairs (negative priority, url), without the depth.
EntryLessNoDepth(a, b) ==
    \/ a.neg < b.neg
    \/ a.neg = b.neg /\ <<a.url, b.url>> \in UrlLess

EntryLess(a, b) ==
    \/ a.neg < b.neg
    \/ a.neg = b.neg /\ a.depth < b.depth
    \/ a.neg = b.neg /\ a.depth = b.depth /\ <<a.url, b.url>> \in UrlLess

RECURSIVE heappush(_, _)
heappush(heap, e) ==
    IF heap = <<>> THEN <<e>>
    ELSE IF EntryLess(e, Head(heap)) THEN <<e>> \o heap
    ELSE <<Head(heap)>> \o heappush(Tail(heap), e)

heappop_peek(heap) == [entry |-> Head(heap), rest |-> heap]
heappop_last(heap) == [entry |-> heap[Len(heap)], rest |-> SubSeq(heap, 1, Len(heap) - 1)]
heappop(heap) == [entry |-> Head(heap), rest |-> Tail(heap)]

RECURSIVE PushAll(_, _)
PushAll(heap, entries) ==
    IF entries = {} THEN heap
    ELSE LET e == CHOOSE x \in entries : TRUE
         IN  PushAll(heappush(heap, e), entries \ {e})

\* lines 301-302: the TopLinksLimit best of the scored links; ties at the cut
\* fall as the iteration order of the set of links has them.
TopLinkSets(scored) ==
    { T \in SUBSET scored :
        /\ Cardinality(T) = Min(TopLinksLimit, Cardinality(scored))
        /\ \A x \in T, y \in scored \ T : PriorityOf[x] >= PriorityOf[y] }

\* list.sort(key=priority_score, reverse=True): stable, highest first
RECURSIVE InsertByScore(_, _)
InsertByScore(sorted, page) ==
    IF sorted = <<>> THEN <<page>>
    ELSE IF page.priority_score > Head(sorted).priority_score THEN <<page>> \o sorted
    ELSE <<Head(sorted)>> \o InsertByScore(Tail(sorted), page)

RECURSIVE SortByScoreDesc(_)
SortByScoreDesc(pages) ==
    IF pages = <<>> THEN <<>>
    ELSE InsertByScore(SortByScoreDesc(SubSeq(pages, 1, Len(pages) - 1)), pages[Len(pages)])

RECURSIVE SelectSeq2(_, _)
SelectSeq2(pages, keep_zero) ==
    IF pages = <<>> THEN <<>>
    ELSE (IF Head(pages).priority_score > 0 \/ keep_zero THEN <<Head(pages)>> ELSE <<>>)
           \o SelectSeq2(Tail(pages), keep_zero)

FirstN(list, n) == SubSeq(list, 1, Min(n, Len(list)))

\* lines 312-317: sort, drop the pages scoring 0 or less, keep the first three
FinalPagesNoCut(pages) == SelectSeq2(SortByScoreDesc(pages), FALSE)
FinalPagesUnsorted(pages) == FirstN(SelectSeq2(pages, FALSE), FinalPagesLimit)
FinalPages(pages) == FirstN(SelectSeq2(SortByScoreDesc(pages), FALSE), FinalPagesLimit)

(***************************************************************************)
(* discover_pages (lines 197-325).  The page behind a URL is drawn when the *)
(* URL is fetched; no URL is fetched twice, so a run sees one fixed         *)
(* website.                                                                *)
(***************************************************************************)
NoEntry == Entry(0, None, EmptyUrl)

CrawlIdle ==
    /\ c_pc = "idle"
    /\ base_url = EmptyUrl
    /\ max_depth = 0
    /\ max_pages_per_school = 0
    /\ visited = {}
    /\ to_visit = <<>>
    /\ discovered_pages = <<>>
    /\ staff_pages_found = 0
    /\ returned = <<>>
    /\ fetch_log = <<>>
    /\ failed_urls = {}
    /\ home_links = {}
    /\ last_popped = NoEntry

CrawlInit ==
    /\ c_pc = "start"
    /\ base_url \in Homepages
    /\ max_depth \in 0..MaxDepthCap
    /\ max_pages_per_school \in 0..MaxPagesCap
    /\ visited = {}
    /\ to_visit = <<>>
    /\ discovered_pages = <<>>
    /\ staff_pages_found = 0
    /\ returned = <<>>
    /\ fetch_log = <<>>
    /\ failed_urls = {}
    /\ home_links = {}
    /\ last_popped = NoEntry

\* lines 213-215: no website
DiscoverNoWebsite ==
    /\ UNCHANGED nonCrawlVars
    /\ c_pc = "start"
    /\ base_url = EmptyUrl
    /\ returned' = <<>>
    /\ c_pc' = "done"
    /\ UNCHANGED <<base_url, max_depth, max_pages_per_school, visited, to_visit,
                   discovered_pages, staff_pages_found, fetch_log, failed_urls, home_links, last_popped>>

\* lines 217-227: the heap is seeded with the homepage
DiscoverStart ==
    /\ UNCHANGED nonCrawlVars
    /\ c_pc = "start"
    /\ base_url # EmptyUrl
    /\ to_visit' = heappush(<<>>, Entry(0, 0, base_url))
    /\ c_pc' = "loop"
    /\ UNCHANGED <<base_url, max_depth, max_pages_per_school, visited,
                   discovered_pages, staff_pages_found, returned, fetch_log, failed_urls, home_links,
                   last_popped>>

\* line 229: the loop condition
LoopCondition == to_visit # <<>> /\ Len(discovered_pages) < max_pages_per_school

\* lines 238-244: the two breaks before the zero-priority test
BreaksBeforeFetch ==
    staff_pages_found >= StaffPagesCap \/ Len(discovered_pages) >= max_pages_per_school

\* lines 231-236: the popped entry is skipped (already visited, or too deep)
SkipEntry ==
    /\ UNCHANGED nonCrawlVars
    /\ c_pc = "loop" /\ LoopCondition
    /\ LET p == heappop(to_visit)
       IN  /\ p.entry.url \in visited \/ p.entry.depth > max_depth
           /\ to_visit' = p.rest
           /\ last_popped' = p.entry
    /\ UNCHANGED <<c_pc, base_url, max_depth, max_pages_per_school, visited,
                   discovered_pages, staff_pages_found, returned, fetch_log, failed_urls, home_links>>

\* lines 246-248: a page of priority 0 or less below the homepage is skipped
SkipZeroPriority ==
    /\ UNCHANGED nonCrawlVars
    /\ c_pc = "loop" /\ LoopCondition
    /\ LET p == heappop(to_visit)
       IN  /\ ~(p.entry.url \in visited \/ p.entry.depth > max_depth)
           /\ ~BreaksBeforeFetch
           /\ -p.entry.neg <= 0 /\ p.entry.depth > 0
           /\ to_visit' = p.rest
           /\ last_popped' = p.entry
    /\ UNCHANGED <<c_pc, base_url, max_depth, max_pages_per_school, visited,
                   discovered_pages, staff_pages_found, returned, fetch_log, failed_urls, home_links>>

\* The guard of an iteration that reaches visited.add and safe_get (line 250),
\* after two guards that leave out one of its tests.
FetchesAlsoZero(entry) ==
    /\ ~(entry.url \in visited \/ entry.depth > max_depth)
    /\ ~BreaksBeforeFetch
FetchesAlsoVisited(entry) ==
    /\ ~(entry.depth > max_depth)
    /\ ~BreaksBeforeFetch
    /\ ~(-entry.neg <= 0 /\ entry.depth > 0)
Fetches(entry) ==
    /\ ~(entry.url \in visited \/ entry.depth > max_depth)
    /\ ~BreaksBeforeFetch
    /\ ~(-entry.neg <= 0 /\ entry.depth > 0)

\* A failed fetch that puts the entry back for a later attempt.
FetchFailsRequeues ==
    /\ UNCHANGED nonCrawlVars
    /\ c_pc = "loop" /\ LoopCondition
    /\ LET p == heappop(to_visit)
           url == p.entry.url
       IN  /\ Fetches(p.entry)
           /\ fetch_log' = Append(fetch_log, [url |-> url, depth |-> p.entry.depth])
           /\ failed_urls' = failed_urls \cup {url}
           /\ to_visit' = heappush(p.rest, [p.entry EXCEPT !.depth = @ + 1])
           /\ last_popped' = p.entry
    /\ UNCHANGED <<c_pc, base_url, max_depth, max_pages_per_school, visited,
                   discovered_pages, staff_pages_found, returned, home_links>>

\* lines 250-255 and 308-310: safe_get gives up; the URL stays visited
FetchFails ==
    /\ UNCHANGED nonCrawlVars
    /\ c_pc = "loop" /\ LoopCondition
    /\ LET p == heappop(to_visit)
           url == p.entry.url
       IN  /\ Fetches(p.entry)
           /\ visited' = visited \cup {url}
           /\ fetch_log' = Append(fetch_log, [url |-> url, depth |-> p.entry.depth])
           /\ failed_urls' = failed_urls \cup {url}
           /\ to_visit' = p.rest
           /\ last_popped' = p.entry
    /\ UNCHANGED <<c_pc, base_url, max_depth, max_pages_per_school, discovered_pages,
                   staff_pages_found, returned, home_links>>

\* A crawl that goes on after the third staff page.
StopsAtStaffCapNever(staff) == FALSE

\* lines 285-287: the break after the page that brings the counter to the cap
StopsAtStaffCap(staff) == staff >= StaffPagesCap

\* lines 250-306: the page is fetched, scored and recorded; its links are pushed
FetchPage ==
    /\ UNCHANGED nonCrawlVars
    /\ c_pc = "loop" /\ LoopCondition
    /\ LET p == heappop(to_visit)
           url == p.entry.url
           depth == p.entry.depth
       IN  /\ Fetches(p.entry)
           /\ \E page \in Pages :
                /\ page.ok
                /\ LET priority == PriorityOf[url] + score_page_content(page.profile)
                       staff == staff_pages_found + (IF url \in StaffUrls THEN 1 ELSE 0)
                       pages == Append(discovered_pages,
                                       [url |-> url, priority_score |-> priority,
                                        depth |-> depth])
                       seen == visited \cup {url}
                       scored == { l \in extract_links(base_url, page.hrefs) : l \notin seen }
                   IN  /\ visited' = seen
                       /\ fetch_log' = Append(fetch_log, [url |-> url, depth |-> depth])
                       /\ home_links' = (IF depth = 0 THEN page.hrefs ELSE home_links)
                       /\ staff_pages_found' = staff
                       /\ discovered_pages' = pages
                       /\ last_popped' = p.entry
                       /\ IF StopsAtStaffCap(staff)
                          THEN /\ c_pc' = "after_loop"
                               /\ to_visit' = p.rest
                          ELSE /\ c_pc' = "loop"
                               /\ IF depth < max_depth /\ Len(pages) < max_pages_per_school
                                  THEN \E top \in TopLinkSets(scored) :
                                         to_visit' = PushAll(p.rest,
                                            { Entry(-PriorityOf[l], depth + 1, l)
                                                : l \in top })
                                  ELSE to_visit' = p.rest
    /\ UNCHANGED <<base_url, max_depth, max_pages_per_school, returned, failed_urls>>

\* line 229: the loop condition fails
LoopEnds ==
    /\ UNCHANGED nonCrawlVars
    /\ c_pc = "loop" /\ ~LoopCondition
    /\ c_pc' = "after_loop"
    /\ UNCHANGED <<base_url, max_depth, max_pages_per_school, visited, to_visit,
                   discovered_pages, staff_pages_found, returned, fetch_log, failed_urls, home_links,
                   last_popped>>

\* lines 312-325: the final sort, filter and cut
ReturnPages ==
    /\ UNCHANGED nonCrawlVars
    /\ c_pc = "after_loop"
    /\ returned' = FinalPages(discovered_pages)
    /\ c_pc' = "done"
    /\ UNCHANGED <<base_url, max_depth, max_pages_per_school, visited, to_visit,
                   discovered_pages, staff_pages_found, fetch_log, failed_urls, home_links, last_popped>>

CrawlNext ==
    \/ DiscoverNoWebsite
    \/ DiscoverStart
    \/ SkipEntry
    \/ SkipZeroPriority
    \/ FetchFails
    \/ FetchPage
    \/ LoopEnds
    \/ ReturnPages

(***************************************************************************)
(* Properties of discover_pages                                            *)
(***************************************************************************)
StaffUrl == Url("s.org", "/staff", "")
ContactStaffUrl == Url("s.org", "/contact-staff", "")
FacebookPathUrl == Url("s.org", "/facebook.com/page", "")
FacebookSiteUrl == Url("facebook.com", "/", "")

\* The URLs of the model that contain a forced-zero keyword.
ZeroKeywordUrls == { u \in AllUrls : AnyIn(zero_priority_keywords, Lower(UrlChars(u))) }

\* No URL occurs twice in a sequence of records with a url field.
NoRepeatedUrl(seq) ==
    \A i, j \in 1..Len(seq) : i < j => seq[i].url # seq[j].url

FetchedUrls == { fetch_log[i].url : i \in 1..Len(fetch_log) }

\* C3: for any finite link graph and any pattern of fetch successes and
\* failures a call of discover_pages ends; every visited.add adds a URL that
\* was not yet visited (one per fetch), and one iteration adds at most
\* TopLinksLimit entries to the frontier.
C3_CrawlTerminates ==
    /\ <>(c_pc = "done")
    /\ [](Cardinality(visited) = Len(fetch_log))
    /\ [][Len(to_visit') <= Len(to_visit) + TopLinksLimit]_vars

\* A crawl over a site with a cycle and a failed fetch has ended with an empty
\* frontier and the page cap not reached.
C3_Witness ==
    /\ c_pc = "done"
    /\ to_visit = <<>>
    /\ Len(fetch_log) >= 3
    /\ Len(discovered_pages) < Len(fetch_log)
    /\ Len(discovered_pages) < max_pages_per_school
    /\ last_popped.url \in visited
    /\ last_popped.url # fetch_log[Len(fetch_log)].url

C5_ZeroPriorityPruned ==
    /\ \A i \in 1..Len(fetch_log) :
          fetch_log[i].url \in ZeroKeywordUrls => fetch_log[i].depth = 0
    /\ \A i \in 1..Len(discovered_pages) :
          discovered_pages[i].url \in ZeroKeywordUrls => discovered_pages[i].depth = 0
    /\ \A i \in 1..Len(returned) :
          returned[i].url \in ZeroKeywordUrls => returned[i].depth = 0
    /\ (c_pc \in {"after_loop", "done"} /\ base_url # EmptyUrl /\ max_pages_per_school >= 1)
          => /\ Len(fetch_log) >= 1
             /\ fetch_log[1] = [url |-> base_url, depth |-> 0]

\* The homepage URL has a forced-zero keyword and was fetched; the link
\* /contact-staff (a forced-zero and a high-value keyword) was popped at depth 1
\* and not fetched.
C5_Witness ==
    /\ c_pc = "done"
    /\ base_url \in ZeroKeywordUrls
    /\ Len(fetch_log) >= 1 /\ fetch_log[1].url = base_url
    /\ last_popped.url = ContactStaffUrl
    /\ last_popped.depth > 0
    /\ ContactStaffUrl \notin visited

\* C6: no URL is fetched twice in a crawl and no two recorded candidates have
\* the same URL.
C6_NoUrlTwice ==
    /\ NoRepeatedUrl(fetch_log)
    /\ NoRepeatedUrl(discovered_pages)

\* The frontier gave back a URL that an earlier iteration had already fetched:
\* it was pushed more than once.
C6_Witness ==
    /\ Len(fetch_log) >= 2
    /\ last_popped.depth > 0
    /\ last_popped.url \in visited
    /\ last_popped.url # fetch_log[Len(fetch_log)].url
    /\ \E i \in 1..Len(discovered_pages) : discovered_pages[i].url = last_popped.url

\* The scenario of C7: the homepage was fetched and links to /staff and to a
\* URL with facebook.com in it, and the crawl may go one level deep and record
\* two pages.
StaffAndFacebookHome ==
    /\ home_links \in { {StaffUrl, FacebookPathUrl}, {StaffUrl, FacebookSiteUrl} }
    /\ max_depth >= 1
    /\ max_pages_per_school >= 2

\* C7: in that scenario the homepage is the first fetch and /staff the second,
\* the facebook link is not popped before /staff is fetched, is never fetched
\* and is in no list of results.
C7_StaffBeforeFacebook ==
    StaffAndFacebookHome =>
        /\ fetch_log[1] = [url |-> base_url, depth |-> 0]
        /\ Len(fetch_log) >= 2 => fetch_log[2] = [url |-> StaffUrl, depth |-> 1]
        /\ c_pc \in {"after_loop", "done"} => Len(fetch_log) >= 2
        /\ last_popped.url \in {FacebookPathUrl, FacebookSiteUrl} => StaffUrl \in visited
        /\ FetchedUrls \cap {FacebookPathUrl, FacebookSiteUrl} = {}
        /\ \A i \in 1..Len(discovered_pages) :
              discovered_pages[i].url \notin {FacebookPathUrl, FacebookSiteUrl}
        /\ \A i \in 1..Len(returned) :
              returned[i].url \notin {FacebookPathUrl, FacebookSiteUrl}

\* The scenario has run to its end: /staff was fetched second and returned, the
\* facebook link was popped last and dropped.
C7_Witness ==
    /\ StaffAndFacebookHome
    /\ c_pc = "done"
    /\ Len(fetch_log) = 2
    /\ last_popped.url = FacebookPathUrl
    /\ \E i \in 1..Len(returned) : returned[i].url = StaffUrl

\* The place of candidate i among the candidates `among` in the order of
\* list.sort(key=priority_score, reverse=True): a higher score first, equal
\* scores in the order of recording.
RankAmong(among, i) ==
    1 + Cardinality({ j \in among :
          \/ discovered_pages[j].priority_score > discovered_pages[i].priority_score
          \/ /\ discovered_pages[j].priority_score = discovered_pages[i].priority_score
             /\ j < i })

ReturnedIsTopOf(among) ==
    /\ Len(returned) = Min(FinalPagesLimit, Cardinality(among))
    /\ \A i \in among :
          RankAmong(among, i) <= FinalPagesLimit
             => returned[RankAmong(among, i)] = discovered_pages[i]

EXCLUDE_KEYWORDS ==
    << <<"c","h","u","r","c","h">>,
       <<"c","a","m","p">>,
       <<"m","i","n","i","s","t","r","y">>,
       <<"f","e","l","l","o","w","s","h","i","p">>,
       <<"w","o","r","s","h","i","p"," ","c","e","n","t","e","r">>,
       <<"b","i","b","l","e"," ","i","n","s","t","i","t","u","t","e">>,
       <<"s","e","m","i","n","a","r","y">>,
       <<"m","i","s","s","i","o","n">>,
       <<"o","u","t","r","e","a","c","h"," ","c","e","n","t","e","r">>,
       <<"w","o","r","s","h","i","p">>,
       <<"p","a","s","t","o","r">>,
       <<"m","i","n","i","s","t","e","r">>,
       <<"c","h","a","p","e","l">> >>

SCHOOL_KEYWORDS ==
    << <<"s","c","h","o","o","l">>,
       <<"a","c","a","d","e","m","y">>,
       <<"p","r","e","s","c","h","o","o","l">>,
       <<"e","l","e","m","e","n","t","a","r","y">>,
       <<"h","i","g","h"," ","s","c","h","o","o","l">>,
       <<"m","i","d","d","l","e"," ","s","c","h","o","o","l">>,
       <<"p","r","i","m","a","r","y"," ","s","c","h","o","o","l">>,
       <<"s","e","c","o","n","d","a","r","y"," ","s","c","h","o","o","l">>,
       <<"c","o","l","l","e","g","e">>,
       <<"u","n","i","v","e","r","s","i","t","y">>,
       <<"p","r","e","p">>,
       <<"p","r","e","p","a","r","a","t","o","r","y">>,
       <<"e","d","u","c","a","t","i","o","n">> >>

Digits == <<"0","1","2","3","4","5","6","7","8","9">>
IsUpperLetter(c) == \E i \in 1..Len(UpperCase) : UpperCase[i] = c
IsDigit(c) == \E i \in 1..Len(Digits) : Digits[i] = c

\* str.upper on one character and on a string
UpperChar(c) ==
    IF \E i \in 1..Len(LowerCase) : LowerCase[i] = c
    THEN UpperCase[CHOOSE i \in 1..Len(LowerCase) : LowerCase[i] = c]
    ELSE c
Upper(s) == [i \in 1..Len(s) |-> UpperChar(s[i])]

\* str.strip
RECURSIVE Strip(_)
Strip(s) ==
    IF s = <<>> THEN <<>>
    ELSE IF Head(s) = " " THEN Strip(Tail(s))
    ELSE IF s[Len(s)] = " " THEN Strip(SubSeq(s, 1, Len(s) - 1))
    ELSE s

\* The first index from i on that holds no blank (Len(s) + 1 if there is none).
RECURSIVE SkipBlanks(_, _)
SkipBlanks(s, i) ==
    IF i <= Len(s) /\ s[i] = " " THEN SkipBlanks(s, i + 1) ELSE i

\* re.search(r',\s*([A-Z]{2})\s+\d{5}', s): the pattern matches at the comma
\* at index i
StateZipMatchesAt(s, i) ==
    /\ s[i] = ","
    /\ LET j == SkipBlanks(s, i + 1)
       IN  /\ j + 2 <= Len(s)
           /\ IsUpperLetter(s[j]) /\ IsUpperLetter(s[j + 1])
           /\ s[j + 2] = " "
           /\ LET d == SkipBlanks(s, j + 2)
              IN  /\ d + 4 <= Len(s)
                  /\ \A x \in d..(d + 4) : IsDigit(s[x])

\* match.group(1) of the leftmost match, <<>> if there is no match
StateZipGroup(s) ==
    IF \E i \in 1..Len(s) : StateZipMatchesAt(s, i)
    THEN LET i == CHOOSE x \in 1..Len(s) :
                    /\ StateZipMatchesAt(s, x)
                    /\ \A y \in 1..(x - 1) : ~StateZipMatchesAt(s, y)
             j == SkipBlanks(s, i + 1)
         IN  SubSeq(s, j, j + 1)
    ELSE <<>>

\* get_state_info('texas') (lines 47-64): abbreviation, normalized name, full name
state_abbrev == <<"T","X">>
normalized_state == <<"t","e","x","a","s">>
full_state_name == <<"T","e","x","a","s">>

\* Bound of the filter model: the number of words of a name.
MaxNameWords == 3

\* The words names are made of.
NameWords ==
    { <<"F","i","r","s","t"," ","B","a","p","t","i","s","t">>,
      <<"C","h","u","r","c","h">>,
      <<"C","h","r","i","s","t","i","a","n">>,
      <<"A","c","a","d","e","m","y">>,
      <<"C","a","m","p","b","e","l","l">>,
      <<"P","R","E","P">> }

RECURSIVE JoinWords(_)
JoinWords(ws) ==
    IF ws = <<>> THEN <<>>
    ELSE IF Len(ws) = 1 THEN ws[1]
    ELSE ws[1] \o <<" ">> \o JoinWords(Tail(ws))

\* A name is missing (None, or NaN in a data frame) or a text, possibly empty.
NoName == [missing |-> TRUE, text |-> <<>>]
Names ==
    { NoName } \cup
    { [missing |-> FALSE, text |-> JoinWords(ws)] : ws \in SeqsUpTo(NameWords, MaxNameWords) }

FirstBaptistChurch ==
    [missing |-> FALSE, text |-> <<"F","i","r","s","t"," ","B","a","p","t","i","s","t"," ","C","h","u","r","c","h">>]
FirstBaptistChristianAcademy ==
    [missing |-> FALSE, text |-> <<"F","i","r","s","t"," ","B","a","p","t","i","s","t"," ","C","h","r","i","s","t","i","a","n"," ","A","c","a","d","e","m","y">>]

DetectedStates == { <<>>, <<" ","T","X"," ">>, <<"O","K">> }
StateFields == { <<>>, <<"T","e","x","a","s">> }
Addresses ==
    { <<>>,
      <<"A","u","s","t","i","n",","," ","T","X"," ","7","8","7","0","1">>,
      <<"T","u","l","s","a",","," ","O","K"," ","7","4","1","0","1">>,
      <<"A","u","s","t","i","n",",","T","X"," ","7","8","7","0","1">> }

\* shared/models.py School: the fields the filter reads
Schools ==
    [ name : Names, detected_state : DetectedStates, state : StateFields,
      address : Addresses ]

\* step2_streaming.py is_state_school (lines 67-110), for target_state 'texas'
is_state_school(school) ==
    LET detected == Lower(Strip(school.detected_state))
        state_field == Lower(Strip(school.state))
        address_field == Upper(school.address)
        names_state(s) ==
            \/ s = Lower(state_abbrev)
            \/ s = normalized_state
            \/ s = Lower(full_state_name)
    IN  \/ detected # <<>> /\ names_state(detected)
        \/ state_field # <<>> /\ names_state(state_field)
        \/ Contains(address_field, <<",", " ">> \o state_abbrev \o <<" ">>)
        \/ EndsWith(address_field, <<",", " ">> \o state_abbrev)
        \/ Contains(address_field, <<" ">> \o Upper(full_state_name))
        \/ StateZipGroup(address_field) = state_abbrev

\* The name test without its rescue by a school keyword.
is_valid_school_no_rescue(school) ==
    /\ ~(school.name.missing \/ school.name.text = <<>>)
    /\ ~AnyIn(EXCLUDE_KEYWORDS, Lower(school.name.text))

\* step2_streaming.py is_valid_school (lines 113-129)
is_valid_school(school) ==
    IF school.name.missing \/ school.name.text = <<>> THEN FALSE
    ELSE LET name_lower == Lower(school.name.text)
             has_exclusion == AnyIn(EXCLUDE_KEYWORDS, name_lower)
             has_school_keyword == AnyIn(SCHOOL_KEYWORDS, name_lower)
         IN  IF has_exclusion /\ ~has_school_keyword THEN FALSE ELSE TRUE

\* step1.5.py filter_schools.is_valid_school (lines 49-65) on a cell of the name
\* column; read_csv (line 31) has read an empty cell as NaN
filter_schools_is_valid_school(name) ==
    IF name.missing \/ name.text = <<>> THEN FALSE
    ELSE LET name_lower == Lower(name.text)
             has_exclusion == AnyIn(EXCLUDE_KEYWORDS, name_lower)
             has_school_keyword == AnyIn(SCHOOL_KEYWORDS, name_lower)
         IN  IF has_exclusion /\ ~has_school_keyword THEN FALSE ELSE TRUE

\* step2_streaming.py filter_school (lines 132-154): TRUE if the school is
\* returned, FALSE if None is
filter_school(school) ==
    IF ~is_state_school(school) THEN FALSE
    ELSE IF ~is_valid_school(school) THEN FALSE
    ELSE TRUE

\* The verdicts on the schools of the model (computed once).
ValidSchools == { s \in Schools : is_valid_school(s) }
ValidNames == { n \in Names : filter_schools_is_valid_school(n) }
StateSchools == { s \in Schools : is_state_school(s) }

NoSchool ==
    [name |-> NoName, detected_state |-> <<>>, state |-> <<>>, address |-> <<>>]

FilterIdle ==
    /\ f_pc = "idle"
    /\ f_stage = "none"
    /\ f_school = NoSchool
    /\ f_accepted = FALSE

FilterInit ==
    /\ f_pc = "start"
    /\ f_stage \in {"step1.5", "streaming"}
    /\ f_school \in Schools
    /\ f_accepted = FALSE

\* step1.5.py lines 68-70: a row stays in df_filtered if its name is valid
FilterSchoolsRow ==
    /\ UNCHANGED nonFilterVars
    /\ f_pc = "start" /\ f_stage = "step1.5"
    /\ f_accepted' = (f_school.name \in ValidNames)
    /\ f_pc' = "done"
    /\ UNCHANGED <<f_stage, f_school>>

\* step2_streaming.py filter_school
FilterSchool ==
    /\ UNCHANGED nonFilterVars
    /\ f_pc = "start" /\ f_stage = "streaming"
    /\ f_accepted' = (f_school \in StateSchools /\ f_school \in ValidSchools)
    /\ f_pc' = "done"
    /\ UNCHANGED <<f_stage, f_school>>

FilterNext ==
    \/ FilterSchoolsRow
    \/ FilterSchool

\* The name rule of C10, on the characters of the name.
MatchesKeyword(name, keywords) ==
    \E k \in 1..Len(keywords) :
        \E i \in 1..Len(name.text) :
            /\ i + Len(keywords[k]) - 1 <= Len(name.text)
            /\ \A x \in 1..Len(keywords[k]) :
                  LowerChar(name.text[i + x - 1]) = keywords[k][x]

NameRule(name) ==
    /\ ~name.missing /\ name.text # <<>>
    /\ \/ ~MatchesKeyword(name, EXCLUDE_KEYWORDS)
       \/ MatchesKeyword(name, SCHOOL_KEYWORDS)

\* C10 as stated: the Filter stage accepts an organization if and only if its
\* name is present and matches no exclusion keyword or at least one inclusion
\* keyword.
C10_AcceptsIffNameRule ==
    f_pc = "done" => (f_accepted <=> NameRule(f_school.name))

\* C10: the name test of the Filter stage passes exactly the names of the rule;
\* the filter of step1.5.py accepts exactly those organizations, the streaming
\* filter accepts exactly those of them that is_state_school places in the
\* target state.  First Baptist Church is rejected by both, First Baptist
\* Christian Academy is accepted by step1.5.py and, in the target state, by the
\* streaming filter.
C10_NameRuleAndRegion ==
    f_pc = "done" =>
        /\ f_stage = "step1.5" => (f_accepted <=> NameRule(f_school.name))
        /\ f_stage = "streaming" =>
              (f_accepted <=> (NameRule(f_school.name) /\ f_school \in StateSchools))
        /\ f_school.name = FirstBaptistChurch => ~f_accepted
        /\ (f_school.name = FirstBaptistChristianAcademy
               /\ (f_stage = "step1.5" \/ f_school \in StateSchools)) => f_accepted

\* The streaming filter has accepted a Texas organization whose name has both
\* an exclusion and an inclusion keyword.
C10_Witness ==
    /\ f_pc = "done" /\ f_stage = "streaming"
    /\ f_accepted
    /\ MatchesKeyword(f_school.name, EXCLUDE_KEYWORDS)
    /\ MatchesKeyword(f_school.name, SCHOOL_KEYWORDS)
    /\ f_school.address # <<>>

(***************************************************************************)
(* One organization through page discovery and the rest of the pipeline:   *)
(* StreamingPipeline.process_single_lead (streaming_pipeline.py),          *)
(* PageDiscoverer.process_schools_csv and discover_pages (step2.py).  The   *)
(* crawl, the collection and the extraction are kept to what they          *)
(* produce: pages, fetches, contacts and caught exceptions.                *)
(***************************************************************************)
\* Bounds of the pipeline model.
MaxCrawlFetches == 3       \* fetches of one crawl
MaxContactsPerPage == 2    \* contacts extracted from one page

\* The website field: None (NaN in a data frame), the empty string or a URL.
Websites ==
    { [is_none |-> TRUE, url |-> EmptyUrl],
      [is_none |-> FALSE, url |-> EmptyUrl],
      [is_none |-> FALSE, url |-> Url("s.org", "/", "")] }

\* Python's "not website" (streaming_pipeline.py lines 133 and 199, step2.py
\* line 213) and the mask of process_schools_csv (step2.py line 346), after a
\* test that takes the empty string for a website.
NoWebsiteOnlyNone(website) == website.is_none
NoWebsite(website) == website.is_none \/ website.url = EmptyUrl

\* The organizations of the pipeline model.
Leads ==
    { s \in Schools : /\ s.name \in {FirstBaptistChurch, FirstBaptistChristianAcademy}
                      /\ s.state = <<>>
                      /\ s.address = <<>> }

PipeIdle ==
    /\ p_pc = "idle"
    /\ p_entry = "none"
    /\ p_school = NoSchool
    /\ p_website = [is_none |-> TRUE, url |-> EmptyUrl]
    /\ p_pages = 0
    /\ p_contents = 0
    /\ p_contacts = 0
    /\ p_fetches = 0
    /\ p_errors = 0

PipeInit ==
    /\ p_pc = "start"
    /\ p_entry \in {"process_single_lead", "process_schools_csv", "discover_pages"}
    /\ p_school \in Leads
    /\ p_website \in Websites
    /\ p_pages = 0
    /\ p_contents = 0
    /\ p_contacts = 0
    /\ p_fetches = 0
    /\ p_errors = 0

\* step2.py discover_pages as its callers see it: nothing for no website (lines
\* 213-215), else at least the fetch of the homepage and at most
\* FinalPagesLimit pages, or an exception.
DiscoverOutcomes(website) ==
    IF NoWebsite(website)
    THEN { [pages |-> 0, fetches |-> 0, raised |-> FALSE] }
    ELSE [ pages : 0..FinalPagesLimit, fetches : 1..MaxCrawlFetches, raised : {FALSE} ]
           \cup [ pages : {0}, fetches : 0..MaxCrawlFetches, raised : {TRUE} ]

\* streaming_pipeline.py _discover_pages_for_school (lines 195-229): an
\* exception of discover_pages is caught and gives no pages
discover_pages_for_school(website) ==
    IF NoWebsite(website)
    THEN { [pages |-> 0, fetches |-> 0, raised |-> FALSE] }
    ELSE { [o EXCEPT !.pages = IF o.raised THEN 0 ELSE o.pages]
             : o \in DiscoverOutcomes(website) }

\* process_single_lead lines 126-135: the filter, then the website test
LeadFilteredOrNoWebsite ==
    /\ UNCHANGED nonPipeVars
    /\ p_pc = "start" /\ p_entry = "process_single_lead"
    /\ ~filter_school(p_school) \/ NoWebsite(p_website)
    /\ p_pc' = "done"
    /\ UNCHANGED <<p_entry, p_school, p_website, p_pages, p_contents, p_contacts,
                   p_fetches, p_errors>>

\* process_single_lead lines 137-153: page discovery
LeadDiscover ==
    /\ UNCHANGED nonPipeVars
    /\ p_pc = "start" /\ p_entry = "process_single_lead"
    /\ filter_school(p_school) /\ ~NoWebsite(p_website)
    /\ \E o \in discover_pages_for_school(p_website) :
          /\ p_pages' = o.pages
          /\ p_fetches' = o.fetches
          /\ p_errors' = p_errors + (IF o.raised THEN 1 ELSE 0)
          /\ p_pc' = IF o.pages = 0 THEN "done" ELSE "collect"
    /\ UNCHANGED <<p_entry, p_school, p_website, p_contents, p_contacts>>

\* process_single_lead lines 155-171: one fetch per page; a page gives its
\* content, nothing, or an exception that is caught
LeadCollect ==
    /\ UNCHANGED nonPipeVars
    /\ p_pc = "collect"
    /\ \E got \in 0..p_pages :
          \E failed \in 0..(p_pages - got) :
              /\ p_contents' = got
              /\ p_errors' = p_errors + failed
              /\ p_fetches' = p_fetches + p_pages
              /\ p_pc' = IF got = 0 THEN "done" ELSE "parse"
    /\ UNCHANGED <<p_entry, p_school, p_website, p_pages, p_contacts>>

\* process_single_lead lines 173-193: the extraction over the collected pages
LeadParse ==
    /\ UNCHANGED nonPipeVars
    /\ p_pc = "parse"
    /\ \E failed \in 0..p_contents :
          \E found \in 0..((p_contents - failed) * MaxContactsPerPage) :
              /\ p_contacts' = found
              /\ p_errors' = p_errors + failed
    /\ p_pc' = "done"
    /\ UNCHANGED <<p_entry, p_school, p_website, p_pages, p_contents, p_fetches>>

\* step2.py process_schools_csv lines 345-364: a row without a website is
\* not in df_with_urls; for the others discover_pages runs inside try
CsvRow ==
    /\ UNCHANGED nonPipeVars
    /\ p_pc = "start" /\ p_entry = "process_schools_csv"
    /\ IF NoWebsite(p_website)
       THEN UNCHANGED <<p_pages, p_fetches, p_errors>>
       ELSE \E o \in DiscoverOutcomes(p_website) :
               /\ p_pages' = (IF o.raised THEN 0 ELSE o.pages)
               /\ p_fetches' = o.fetches
               /\ p_errors' = p_errors + (IF o.raised THEN 1 ELSE 0)
    /\ p_pc' = "done"
    /\ UNCHANGED <<p_entry, p_school, p_website, p_contents, p_contacts>>

\* step2.py discover_pages called with the website field as base_url; an
\* exception of a crawl is one of discover_pages' own handler (lines 308-310)
DiscoverPagesCall ==
    /\ UNCHANGED nonPipeVars
    /\ p_pc = "start" /\ p_entry = "discover_pages"
    /\ \E o \in { x \in DiscoverOutcomes(p_website) : ~x.raised } :
          /\ p_pages' = o.pages
          /\ p_fetches' = o.fetches
    /\ p_pc' = "done"
    /\ UNCHANGED <<p_entry, p_school, p_website, p_contents, p_contacts, p_errors>>

PipeNext ==
    \/ LeadFilteredOrNoWebsite
    \/ LeadDiscover
    \/ LeadCollect
    \/ LeadParse
    \/ CsvRow
    \/ DiscoverPagesCall

\* C9: an organization whose website field is empty or missing has, at every
\* point of its processing, no candidate page, no contact, no fetch and no
\* exception, and its processing ends.
C9_NoWebsiteNoWork ==
    (p_pc # "idle" /\ (p_website.is_none \/ p_website.url = EmptyUrl)) =>
        /\ p_pages = 0
        /\ p_contents = 0
        /\ p_contacts = 0
        /\ p_fetches = 0
        /\ p_errors = 0
        /\ p_pc \in {"start", "done"}

\* process_single_lead has returned for an organization that passes the filter
\* and has the empty string as its website.
C9_Witness ==
    /\ p_pc = "done"
    /\ p_entry = "process_single_lead"
    /\ filter_school(p_school)
    /\ ~p_website.is_none /\ p_website.url = EmptyUrl
    /\ p_contacts = 0 /\ p_fetches = 0

(***************************************************************************)
(* The compiler: step7.py FinalCompiler.  A cell of a data frame is NaN    *)
(* (an empty cell of the CSV, or None) or a string.                        *)
(***************************************************************************)
NaN == [nan |-> TRUE, text |-> <<>>]
Str(text) == [nan |-> FALSE, text |-> text]

\* pd.isna(x), and bool(x): the float NaN is true, the empty string is false
IsNa(cell) == cell.nan
Truthy(cell) == cell.nan \/ cell.text # <<>>

\* step7.py lines 28-31
invalid_emails ==
    << <<"i","n","f","o","@">>,
       <<"c","o","n","t","a","c","t","@">>,
       <<"a","d","m","i","n","@">>,
       <<"o","f","f","i","c","e","@">>,
       <<"w","e","b","m","a","s","t","e","r","@">>,
       <<"n","o","r","e","p","l","y","@">>,
       <<"n","o","-","r","e","p","l","y","@">>,
       <<"h","e","l","l","o","@">>,
       <<"s","u","p","p","o","r","t","@">> >>

IsLetter(c) ==
    \/ \E i \in 1..Len(UpperCase) : UpperCase[i] = c
    \/ \E i \in 1..Len(LowerCase) : LowerCase[i] = c

\* email_pattern (line 22): ^[a-zA-Z0-9._%+-]+@[a-zA-Z0-9.-]+\.[a-zA-Z]{2,}$
EmailLocalChar(c) == IsLetter(c) \/ IsDigit(c) \/ c \in {".", "_", "%", "+", "-"}
EmailDomainChar(c) == IsLetter(c) \/ IsDigit(c) \/ c \in {".", "-"}
MatchesEmailPattern(s) ==
    \E at \in 2..Len(s) :
        /\ s[at] = "@"
        /\ \A i \in 1..(at - 1) : EmailLocalChar(s[i])
        /\ \E dot \in (at + 2)..(Len(s) - 2) :
              /\ s[dot] = "."
              /\ \A i \in (at + 1)..(dot - 1) : EmailDomainChar(s[i])
              /\ \A i \in (dot + 1)..Len(s) : IsLetter(s[i])

\* s.split(sep) for a one-character sep: the pieces between the separators
RECURSIVE SplitOn(_, _)
SplitOn(s, sep) ==
    IF \E i \in 1..Len(s) : s[i] = sep
    THEN LET i == CHOOSE x \in 1..Len(s) : s[x] = sep /\ \A y \in 1..(x - 1) : s[y] # sep
         IN  <<SubSeq(s, 1, i - 1)>> \o SplitOn(SubSeq(s, i + 1, Len(s)), sep)
    ELSE <<s>>

\* clean_email (lines 51-137) on printable ASCII text: the text of the cleaned
\* address, <<>> if it is none
clean_email(cell) ==
    IF ~Truthy(cell) \/ IsNa(cell) THEN <<>>
    ELSE LET email == Strip(cell.text)
             parts == SplitOn(email, "@")
             labels == SplitOn(parts[2], ".")
         IN  IF email = <<>> \/ Len(parts) = 1 THEN <<>>
             ELSE IF Len(parts) # 2 THEN <<>>
             ELSE IF parts[1] = <<>> THEN <<>>
             ELSE IF Len(labels) = 1 \/ Len(labels[Len(labels)]) < 2 THEN <<>>
             ELSE IF Contains(email, <<" ">>) THEN <<>>
             ELSE IF ~MatchesEmailPattern(email) THEN <<>>
             ELSE Lower(email)

\* is_valid_email (lines 139-155)
is_valid_email(cell) ==
    IF ~Truthy(cell) \/ IsNa(cell) THEN FALSE
    ELSE LET cleaned_email == clean_email(cell)
         IN  IF cleaned_email = <<>> THEN FALSE
             ELSE IF AnyIn(invalid_emails, cleaned_email) THEN FALSE
             ELSE TRUE

\* The parts of calculate_confidence_score (lines 237-265)
EmailPoints(row) ==
    IF Truthy(row.email) /\ ~IsNa(row.email) /\ Strip(row.email.text) # <<>>
       /\ is_valid_email(row.email)
    THEN 20 ELSE 0
NamePoints(row) ==
    IF Truthy(row.first_name) /\ Truthy(row.last_name) THEN 30
    ELSE IF Truthy(row.first_name) \/ Truthy(row.last_name) THEN 15
    ELSE 0
TitlePoints(row) ==
    IF Truthy(row.title) /\ ~IsNa(row.title) THEN 20 ELSE 0
PhonePoints(row) ==
    IF Truthy(row.phone) /\ ~IsNa(row.phone) /\ Strip(row.phone.text) # <<>>
    THEN 20 ELSE 0

\* A score that takes 20 off for an address that is there and not valid.
calculate_confidence_score_penalty(row) ==
    Min(NamePoints(row) + TitlePoints(row) + PhonePoints(row)
          + (IF EmailPoints(row) = 20 THEN 20
             ELSE IF Truthy(row.email) /\ ~IsNa(row.email) THEN -20 ELSE 0), 100)

\* calculate_confidence_score (lines 237-265)
calculate_confidence_score(row) ==
    Min(EmailPoints(row) + NamePoints(row) + TitlePoints(row) + PhonePoints(row), 100)

\* The cells of the rows that are scored.
ScoreEmails == { NaN, Str(<<>>), Str(<<"j","a","n","e","@","x",".","o","r","g">>), Str(<<"i","n","f","o","@","x",".","o","r","g">>) }
ScoreFirstNames == { NaN, Str(<<>>), Str(<<"J","a","n","e">>) }
ScoreLastNames == { NaN, Str(<<>>), Str(<<"D","o","e">>) }
ScoreTitles == { NaN, Str(<<>>), Str(<<"P","r","i","n","c","i","p","a","l">>) }
ScorePhones == { NaN, Str(<<>>), Str(<<" ">>), Str(<<"5","1","2","5","5","5","1","2","3","4">>) }
ScoreRows ==
    [ email : ScoreEmails, first_name : ScoreFirstNames, last_name : ScoreLastNames,
      title : ScoreTitles, phone : ScorePhones ]

\* The scores of the rows (computed once).
ScoreOf == [row \in ScoreRows |-> calculate_confidence_score(row)]

NoRow == [email |-> NaN, first_name |-> NaN, last_name |-> NaN, title |-> NaN,
          phone |-> NaN]

ScoreIdle ==
    /\ s_pc = "idle"
    /\ s_a = NoRow
    /\ s_b = NoRow
    /\ s_score_a = 0
    /\ s_score_b = 0

ScoreInit ==
    /\ s_pc = "start"
    /\ s_a \in ScoreRows
    /\ s_b \in ScoreRows
    /\ s_score_a = 0
    /\ s_score_b = 0

\* df.apply(self.calculate_confidence_score, axis=1) (line 394) on the two rows
ScoreRowsOfFrame ==
    /\ UNCHANGED nonScoreVars
    /\ s_pc = "start"
    /\ s_score_a' = ScoreOf[s_a]
    /\ s_score_b' = ScoreOf[s_b]
    /\ s_pc' = "done"
    /\ UNCHANGED <<s_a, s_b>>

ScoreNext == ScoreRowsOfFrame

\* The fields whose presence is scored, and what makes one non-empty.
ScoredFields == {"email", "first_name", "last_name", "title", "phone"}
NonEmptyField(cell) == ~cell.nan /\ cell.text # <<>>

\* Row a is row b with some of b's empty fields filled.
StrictlyMoreFields(a, b) ==
    /\ \A f \in ScoredFields : a[f] = b[f] \/ (NonEmptyField(a[f]) /\ ~NonEmptyField(b[f]))
    /\ \E f \in ScoredFields : a[f] # b[f]

\* C13: if the non-empty fields of row A are a strict superset of those of
\* row B and the rows are otherwise identical, the score of A is at least the
\* score of B; every score lies between 0 and 100.
C13_ScoreMonotone ==
    s_pc = "done" =>
        /\ StrictlyMoreFields(s_a, s_b) => s_score_a >= s_score_b
        /\ s_score_a \in 0..100
        /\ s_score_b \in 0..100

\* Row A has an address that is not valid where row B has none, a first name
\* where B has NaN, and a phone; it scores more.
C13_Witness ==
    /\ s_pc = "done"
    /\ StrictlyMoreFields(s_a, s_b)
    /\ NonEmptyField(s_a.email) /\ ~is_valid_email(s_a.email) /\ ~NonEmptyField(s_b.email)
    /\ NonEmptyField(s_a.first_name) /\ s_b.first_name = NaN
    /\ s_score_a > s_score_b

(***************************************************************************)
(* format_phone (step7.py lines 159-175).                                  *)
(***************************************************************************)
\* re.sub(r'\D', '', phone)
DigitsOf(s) == SelectSeq(s, IsDigit)

\* The 10-digit number written with a country code.
format_phone_country_code(cell) ==
    IF ~Truthy(cell) \/ IsNa(cell) THEN <<>>
    ELSE LET phone == Strip(cell.text)
             digits == DigitsOf(phone)
         IN  IF Len(digits) = 10
             THEN <<"+", "1", " ", "(">> \o SubSeq(digits, 1, 3) \o <<")", " ">>
                    \o SubSeq(digits, 4, 6) \o <<"-">> \o SubSeq(digits, 7, 10)
             ELSE IF Len(digits) = 11 /\ digits[1] = "1"
             THEN <<"(">> \o SubSeq(digits, 2, 4) \o <<")", " ">>
                    \o SubSeq(digits, 5, 7) \o <<"-">> \o SubSeq(digits, 8, 11)
             ELSE phone

\* format_phone: the text returned for a phone cell
format_phone(cell) ==
    IF ~Truthy(cell) \/ IsNa(cell) THEN <<>>
    ELSE LET phone == Strip(cell.text)
             digits == DigitsOf(phone)
         IN  IF Len(digits) = 10
             THEN <<"(">> \o SubSeq(digits, 1, 3) \o <<")", " ">>
                    \o SubSeq(digits, 4, 6) \o <<"-">> \o SubSeq(digits, 7, 10)
             ELSE IF Len(digits) = 11 /\ digits[1] = "1"
             THEN <<"(">> \o SubSeq(digits, 2, 4) \o <<")", " ">>
                    \o SubSeq(digits, 5, 7) \o <<"-">> \o SubSeq(digits, 8, 11)
             ELSE phone

\* Phone strings are built from at most MaxPhoneTokens of these pieces.
MaxPhoneTokens == 5
PhoneTokens ==
    { <<"(","5","1","2",")"," ">>, <<"5","1","2">>, <<"5","5","5">>, <<"-">>, <<"1","2","3","4">>, <<"1">>, <<" ">>, <<"x","9">> }

RECURSIVE Flatten(_)
Flatten(pieces) ==
    IF pieces = <<>> THEN <<>> ELSE Head(pieces) \o Flatten(Tail(pieces))

PhoneInputs ==
    {NaN} \cup { Str(Flatten(pieces)) : pieces \in SeqsUpTo(PhoneTokens, MaxPhoneTokens) }

PhoneIdle ==
    /\ ph_pc = "idle"
    /\ ph_input = NaN
    /\ ph_once = <<>>
    /\ ph_twice = <<>>

PhoneInit ==
    /\ ph_pc = "start"
    /\ ph_input \in PhoneInputs
    /\ ph_once = <<>>
    /\ ph_twice = <<>>

\* df['phone'].apply(self.format_phone) (line 391)
FormatPhone ==
    /\ UNCHANGED nonPhoneVars
    /\ ph_pc = "start"
    /\ ph_once' = format_phone(ph_input)
    /\ ph_pc' = "once"
    /\ UNCHANGED <<ph_input, ph_twice>>

\* format_phone on a string format_phone returned
FormatPhoneAgain ==
    /\ UNCHANGED nonPhoneVars
    /\ ph_pc = "once"
    /\ ph_twice' = format_phone(Str(ph_once))
    /\ ph_pc' = "twice"
    /\ UNCHANGED <<ph_input, ph_once>>

PhoneNext ==
    \/ FormatPhone
    \/ FormatPhoneAgain

\* The form '(NNN) NNN-NNNN'.
IsFormattedPhone(s) ==
    /\ Len(s) = 14
    /\ s[1] = "(" /\ s[5] = ")" /\ s[6] = " " /\ s[10] = "-"
    /\ \A i \in {2, 3, 4, 7, 8, 9, 11, 12, 13, 14} : IsDigit(s[i])

\* C14: format_phone(format_phone(p)) = format_phone(p) for every phone p, and
\* a phone already of the form '(NNN) NNN-NNNN' is returned unchanged.
C14_FormatPhoneIdempotent ==
    /\ ph_pc = "twice" => ph_twice = ph_once
    /\ (ph_pc \in {"once", "twice"} /\ ~IsNa(ph_input) /\ IsFormattedPhone(ph_input.text))
          => ph_once = ph_input.text

\* An 11-digit number with country code 1 and blanks around it was reformatted
\* by the first call, and the second call was made.
C14_Witness ==
    /\ ph_pc = "twice"
    /\ ~IsNa(ph_input)
    /\ Len(DigitsOf(ph_input.text)) = 11 /\ ph_input.text[1] = " "
    /\ IsFormattedPhone(ph_once)
    /\ ph_once # ph_input.text
    /\ ph_twice = ph_once

(***************************************************************************)
(* compile_final_csv and deduplicate_contacts (step7.py).  A frame is a    *)
(* sequence of rows; idx is the row's index label in the frame read.       *)
(***************************************************************************)
\* step7.py lines 34-38
generic_name_patterns ==
    << <<"a","b","o","u","t">>,
       <<"a","d","m","i","s","s","i","o","n","s">>,
       <<"c","o","n","t","a","c","t"," ","u","s">>,
       <<"h","o","m","e">>,
       <<"w","e","l","c","o","m","e">>,
       <<"s","t","a","f","f"," ","d","i","r","e","c","t","o","r","y">>,
       <<"f","a","c","u","l","t","y">>,
       <<"a","d","m","i","n","i","s","t","r","a","t","i","o","n">>,
       <<"o","u","r"," ","t","e","a","m">>,
       <<"m","e","e","t"," ","o","u","r">>,
       <<"w","h","o"," ","w","e"," ","a","r","e">>,
       <<"s","c","h","o","o","l"," ","i","n","f","o","r","m","a","t","i","o","n">>,
       <<"g","e","n","e","r","a","l"," ","i","n","f","o","r","m","a","t","i","o","n">> >>

\* step7.py lines 41-46
placeholder_names ==
    << <<"j","o","h","n"," ","d","o","e">>,
       <<"j","a","n","e"," ","d","o","e">>,
       <<"j","o","h","n"," ","s","m","i","t","h">>,
       <<"j","a","n","e"," ","s","m","i","t","h">>,
       <<"b","o","b"," ","j","o","n","e","s">>,
       <<"t","e","s","t"," ","u","s","e","r">>,
       <<"e","x","a","m","p","l","e"," ","n","a","m","e">>,
       <<"s","a","m","p","l","e"," ","u","s","e","r">>,
       <<"j","o","h","n"," ","t","e","s","t">>,
       <<"j","a","n","e"," ","t","e","s","t">>,
       <<"p","l","a","c","e","h","o","l","d","e","r">>,
       <<"d","e","m","o"," ","u","s","e","r">>,
       <<"j","o","h","n"," ","e","x","a","m","p","l","e">>,
       <<"j","a","n","e"," ","e","x","a","m","p","l","e">>,
       <<"t","e","s","t"," ","n","a","m","e">>,
       <<"s","a","m","p","l","e"," ","n","a","m","e">> >>

\* series.fillna('')
FillNa(cell) == IF cell.nan THEN <<>> ELSE cell.text

\* len(name.split())
WordCount(s) ==
    Cardinality({ i \in 1..Len(s) : s[i] # " " /\ (i = 1 \/ s[i - 1] = " ") })

\* is_valid_name without the list of placeholder names.
is_valid_name_no_placeholders(name) ==
    IF name = <<>> THEN FALSE
    ELSE LET name_lower == Lower(Strip(name))
         IN  /\ ~AnyIn(generic_name_patterns, name_lower)
             /\ WordCount(name) >= 1 /\ WordCount(name) <= 5
             /\ \E i \in 1..Len(name) : IsLetter(name[i])

\* is_valid_name (lines 177-208) on a string
is_valid_name(name) ==
    IF name = <<>> THEN FALSE
    ELSE LET name_lower == Lower(Strip(name))
         IN  /\ ~AnyIn(placeholder_names, name_lower)
             /\ ~AnyIn(generic_name_patterns, name_lower)
             /\ WordCount(name) >= 1 /\ WordCount(name) <= 5
             /\ \E i \in 1..Len(name) : IsLetter(name[i])

\* lines 357 and 371: the email column cleaned, the combined name
CleanedEmail(cell) ==
    IF Truthy(cell) /\ ~IsNa(cell) /\ Strip(cell.text) # <<>>
    THEN Str(clean_email(cell)) ELSE cell
CombinedName(row) == Strip(FillNa(row.first_name) \o <<" ">> \o FillNa(row.last_name))

\* lines 362 and 372
EmailValid(cell) == IsNa(cell) \/ Strip(cell.text) = <<>> \/ is_valid_email(cell)
NameValid(row) == is_valid_name(CombinedName(row))

\* The rows of a frame at the positions kept, in the frame's order.
RowsAt(frame, keep) ==
    LET F[i \in 0..Len(frame)] ==
            IF i = 0 THEN <<>>
            ELSE IF i \in keep THEN Append(F[i - 1], frame[i]) ELSE F[i - 1]
    IN  F[Len(frame)]

\* lines 357-373: emails cleaned, rows with a generic address or a name that
\* is not valid removed
Validated(frame) ==
    LET cleaned == [i \in 1..Len(frame) |->
                       [frame[i] EXCEPT !.email = CleanedEmail(frame[i].email)]]
    IN  RowsAt(cleaned, { i \in 1..Len(frame) :
                            EmailValid(cleaned[i].email) /\ NameValid(cleaned[i]) })

\* lines 391-394: phones formatted, then the rows scored
Scored(frame) ==
    [i \in 1..Len(frame) |->
        LET row == [frame[i] EXCEPT !.phone = Str(format_phone(frame[i].phone))]
        IN  [row EXCEPT !.confidence_score = calculate_confidence_score(row)]]

\* sort_values(score, ascending=False) with the default quicksort, which is
\* not stable: any order of the rows with non-increasing scores
SortedDescending(frame) ==
    { order \in [1..Len(frame) -> { frame[i] : i \in 1..Len(frame) }] :
        /\ \A i, j \in 1..Len(frame) : i # j => order[i] # order[j]
        /\ \A i \in 1..(Len(frame) - 1) :
              order[i].confidence_score >= order[i + 1].confidence_score }

\* drop_duplicates(subset, keep='last'): the last row of each key
drop_duplicates_keep_last(frame, keys) ==
    RowsAt(frame, { i \in 1..Len(frame) : \A j \in (i + 1)..Len(frame) : keys[j] # keys[i] })

\* drop_duplicates(subset, keep='first'): the first row of each key
drop_duplicates(frame, keys) ==
    RowsAt(frame, { i \in 1..Len(frame) : \A j \in 1..(i - 1) : keys[j] # keys[i] })

\* lines 277-279: fillna('').astype(str).str.lower().str.strip()
Normalized(cell) == Strip(Lower(FillNa(cell)))
DedupKey(row) ==
    <<Normalized(row.first_name), Normalized(row.last_name), Normalized(row.school_name)>>

\* lines 288-289: the rows of df_with_email
HasEmail(row) ==
    ~IsNa(row.email) /\ row.email.text # <<>> /\ Strip(row.email.text) # <<>>
HasNoEmail(row) == ~HasEmail(row)

\* df['email'].str raises AttributeError on a float column: read_csv gives
\* one when every email cell of the input is empty
EmailColumnIsFloat(frame) ==
    Len(frame) > 0 /\ \A i \in 1..Len(frame) : IsNa(frame[i].email)

\* The header of the final CSV (lines 401-418) and of the empty one (line 385)
FinalColumns ==
    << "School Name", "First Name", "Last Name", "Title", "Email", "Phone",
       "Source URL", "Confidence Score", "Date Collected", "Verified", "Notes" >>
EmptyColumns ==
    << "School Name", "First Name", "Last Name", "Title", "Email", "Phone",
       "Confidence Score", "Source URL" >>

\* The final frame as written, without the sort of line 413.
FinalOrdersUnsorted(frame) == { frame }

\* line 413: final_df.sort_values('Confidence Score', ascending=False)
FinalOrders(frame) == SortedDescending(frame)

\* The contacts of the input CSV: at most MaxRows rows over these cells.
MaxRows == 2
FirstNames == { Str(<<"J","a","n","e">>), Str(<<"j","a","n","e"," ">>), Str(<<"A","n","n">>) }
LastNames == { Str(<<"D","o","e">>), Str(<<"R","o","e">>) }
ExampleSchool == Str(<<"E","x","a","m","p","l","e"," ","S","c","h","o","o","l">>)
Emails ==
    { NaN, Str(<<"j","a","n","e","@","x",".","o","r","g">>), Str(<<"J","a","n","e","@","X",".","o","r","g">>), Str(<<"a","n","n","@","x",".","o","r","g">>),
      Str(<<"i","n","f","o","@","x",".","o","r","g">>), Str(<<"j","a","n","e","@","x">>) }
Titles == { NaN, Str(<<"P","r","i","n","c","i","p","a","l">>) }
Phones == { NaN, Str(<<"5","1","2","5","5","5","1","2","3","4">>) }
Contacts ==
    [ first_name : FirstNames, last_name : LastNames, school_name : {ExampleSchool},
      email : Emails, title : Titles, phone : Phones ]
Row(contact, i) ==
    [ idx |-> i, first_name |-> contact.first_name, last_name |-> contact.last_name,
      school_name |-> contact.school_name, email |-> contact.email,
      title |-> contact.title, phone |-> contact.phone, confidence_score |-> 0 ]
InputFrames ==
    { [i \in 1..Len(contacts) |-> Row(contacts[i], i)] :
        contacts \in SeqsUpTo(Contacts, MaxRows) }

NoFile == [written |-> FALSE, header |-> <<>>, rows |-> <<>>]

CompileIdle ==
    /\ k_pc = "idle"
    /\ k_input = <<>>
    /\ k_df = <<>>
    /\ k_primary = <<>>
    /\ k_result = <<>>
    /\ k_file = NoFile

CompileInit ==
    /\ k_pc = "read"
    /\ k_input \in InputFrames
    /\ k_df = <<>>
    /\ k_primary = <<>>
    /\ k_result = <<>>
    /\ k_file = NoFile

\* lines 381-388: nothing is left after validation, an empty CSV is written
WriteEmptyCsv ==
    /\ UNCHANGED nonCompileVars
    /\ k_pc = "read"
    /\ Validated(k_input) = <<>>
    /\ k_file' = [written |-> TRUE, header |-> EmptyColumns, rows |-> <<>>]
    /\ k_pc' = "returned"
    /\ UNCHANGED <<k_input, k_df, k_primary, k_result>>

\* lines 357-394: validation, phones, scores; the frame goes to
\* deduplicate_contacts
ValidateAndScore ==
    /\ UNCHANGED nonCompileVars
    /\ k_pc = "read"
    /\ Validated(k_input) # <<>>
    /\ k_df' = Scored(Validated(k_input))
    /\ k_pc' = "scored"
    /\ UNCHANGED <<k_input, k_primary, k_result, k_file>>

\* lines 274-285: sort, normalized keys, primary drop_duplicates
DedupPrimary ==
    /\ UNCHANGED nonCompileVars
    /\ k_pc = "scored"
    /\ \E sorted \in SortedDescending(k_df) :
          k_primary' = drop_duplicates(sorted, [i \in 1..Len(sorted) |-> DedupKey(sorted[i])])
    /\ k_pc' = "primary"
    /\ UNCHANGED <<k_input, k_df, k_result, k_file>>

\* lines 288-289 on a float email column: AttributeError, nothing is written
DedupRaises ==
    /\ UNCHANGED nonCompileVars
    /\ k_pc = "primary"
    /\ EmailColumnIsFloat(k_input)
    /\ k_pc' = "raised"
    /\ UNCHANGED <<k_input, k_df, k_primary, k_result, k_file>>

\* lines 288-309: the rows with an email sorted and deduplicated by email,
\* followed by the rows without
DedupSecondary ==
    /\ UNCHANGED nonCompileVars
    /\ k_pc = "primary"
    /\ ~EmailColumnIsFloat(k_input)
    /\ \E sorted \in SortedDescending(SelectSeq(k_primary, HasEmail)) :
          k_result' = drop_duplicates(sorted, [i \in 1..Len(sorted) |-> sorted[i].email.text])
                        \o SelectSeq(k_primary, HasNoEmail)
    /\ k_pc' = "deduped"
    /\ UNCHANGED <<k_input, k_df, k_primary, k_file>>

\* lines 401-422: the final frame sorted by score and written
WriteFinalCsv ==
    /\ UNCHANGED nonCompileVars
    /\ k_pc = "deduped"
    /\ \E sorted \in FinalOrders(k_result) :
          k_file' = [written |-> TRUE, header |-> FinalColumns, rows |-> sorted]
    /\ k_pc' = "returned"
    /\ UNCHANGED <<k_input, k_df, k_primary, k_result>>

CompileNext ==
    \/ WriteEmptyCsv
    \/ ValidateAndScore
    \/ DedupPrimary
    \/ DedupRaises
    \/ DedupSecondary
    \/ WriteFinalCsv

\* The rows of a frame.
RowsOf(frame) == { frame[i] : i \in 1..Len(frame) }
\* deduplicate_contacts has returned.
Deduplicated == k_pc = "deduped" \/ (k_pc = "returned" /\ k_result # <<>>)

SamePersonOneEmail(e, n) ==
    /\ Len(k_input) = 2
    /\ {e, n} = {1, 2}
    /\ k_input[1].first_name = k_input[2].first_name
    /\ k_input[1].last_name = k_input[2].last_name
    /\ k_input[1].school_name = k_input[2].school_name
    /\ is_valid_email(k_input[e].email)
    /\ IsNa(k_input[n].email)
JaneDoeOneEmail(e, n) ==
    /\ SamePersonOneEmail(e, n)
    /\ k_input[1].first_name = Str(<<"J","a","n","e">>)
    /\ k_input[1].last_name = Str(<<"D","o","e">>)
\* The rows of the input agree in title and phone.
OtherwiseIdentical ==
    /\ k_input[1].title = k_input[2].title
    /\ k_input[1].phone = k_input[2].phone

\* C12 as stated: of two contacts Jane Doe of Example School, one with a valid
\* email and one without, the final CSV has exactly one record, the one with
\* the email.
C12_JaneDoeKeepsEmailRecord ==
    \A e, n \in 1..2 :
        (k_pc = "returned" /\ JaneDoeOneEmail(e, n)) =>
            /\ Len(k_file.rows) = 1
            /\ k_file.rows[1].idx = e

\* C12, amended: of two contacts with the same names and organization, one
\* with a valid email and one without, the final CSV has no record when the
\* name fails name validation, as the placeholder name Jane Doe does;
\* otherwise it has exactly one record, one of the highest score of the two,
\* which is the one with the email when it scores more, as it does when the
\* two agree in title and phone.
C12_SamePersonOneRecord ==
    \A e, n \in 1..2 :
        (k_pc = "returned" /\ SamePersonOneEmail(e, n)) =>
            /\ k_file.written
            /\ JaneDoeOneEmail(e, n) => k_file.rows = <<>>
            /\ ~NameValid(k_input[1]) => k_file.rows = <<>>
            /\ NameValid(k_input[1]) =>
                  /\ Len(k_file.rows) = 1
                  /\ \A i \in 1..2 :
                        k_file.rows[1].confidence_score >= k_df[i].confidence_score
                  /\ k_df[e].confidence_score > k_df[n].confidence_score
                        => k_file.rows[1].idx = e
                  /\ OtherwiseIdentical => k_file.rows[1].idx = e

\* Jane Roe twice, the second time with an email, otherwise identical: the
\* record with the email is the one written.
C12_Witness ==
    /\ k_pc = "returned"
    /\ SamePersonOneEmail(2, 1)
    /\ OtherwiseIdentical
    /\ NameValid(k_input[1])
    /\ Len(k_file.rows) = 1
    /\ HasEmail(k_file.rows[1])
    /\ k_file.rows[1].idx = 2

\* C15: every final CSV that compile_final_csv writes has the header School
\* Name, First Name, Last Name, Title, Email, Phone, Source URL, Confidence
\* Score, Date Collected, Verified, Notes, also when no contact is left after
\* validation.
C15_HeaderColumns ==
    k_file.written => k_file.header = FinalColumns

\* C19: the rows of the final CSV are in non-increasing order of confidence
\* score.
C19_RowsByScore ==
    k_file.written =>
        \A i \in 1..(Len(k_file.rows) - 1) :
            k_file.rows[i].confidence_score >= k_file.rows[i + 1].confidence_score

\* deduplicate_contacts returned a row with an email before a row without
\* one that scores more; the file has them in the order of the scores.
C19_Witness ==
    /\ k_file.written
    /\ Len(k_result) = 2
    /\ k_result[1].confidence_score < k_result[2].confidence_score
    /\ k_file.rows = <<k_result[2], k_result[1]>>

\* C17: when a discovery run of step1.py is interrupted or fails, the handler
\* writes to the output file every organization record accepted so far, i.e.
\* every place that passed the region check and the dedup test.
C17_PartialResultsFlushed ==
    spc = "interrupted" => seen_place_ids \subseteq PlaceIds(output_file.rows)

(***************************************************************************)
(* Stages and their output files: process_schools_csv (step2.py),          *)
(* collect_content_from_pages (step3.py) and the run of StreamingPipeline  *)
(* with its __main__ handlers.  Results are counted; a file that exists    *)
(* has a header row and as many data rows as it was given.                 *)
(***************************************************************************)
MaxStageInputs == 10
MaxResultsPerInput == 1
\* step2.py line 365, step3.py line 351: progress is saved every 10 inputs
SaveEvery == 10

CsvStages == {"discovery", "collection"}
Stages == CsvStages \cup {"streaming"}
FileNames == {"output", "output_no_emails", "partial_output", "partial_output_no_emails"}
NoFiles == [name \in FileNames |-> None]

\* _save_progress (step2.py 381-387), _save_content (step3.py 365-381) and
\* _write_final_csv (streaming_pipeline.py 427-441): nothing is written for an
\* empty list
save_rows(files, name, count) ==
    IF count = 0 THEN files ELSE [files EXCEPT ![name] = count]

StageIdle ==
    /\ st_stage = "none"
    /\ st_pc = "idle"
    /\ st_inputs = 0
    /\ st_idx = 0
    /\ st_results = 0
    /\ st_no_email = 0
    /\ st_files = NoFiles
    /\ st_exit = None

StageInit ==
    /\ st_stage \in Stages
    /\ st_pc = "loop"
    /\ st_inputs \in 0..MaxStageInputs
    /\ st_idx = 0
    /\ st_results = 0
    /\ st_no_email = 0
    /\ st_files = NoFiles
    /\ st_exit = None

\* step2.py 352-367, step3.py 336-353: one input row; its pages or content are
\* added and every tenth row saves the progress
CsvStageInput ==
    /\ UNCHANGED nonStageVars
    /\ st_stage \in CsvStages
    /\ st_pc = "loop"
    /\ st_idx < st_inputs
    /\ st_idx' = st_idx + 1
    /\ \E found \in 0..MaxResultsPerInput :
          /\ st_results' = st_results + found
          /\ st_files' = IF st_idx' % SaveEvery = 0
                         THEN save_rows(st_files, "output", st_results')
                         ELSE st_files
    /\ UNCHANGED <<st_stage, st_pc, st_inputs, st_no_email, st_exit>>

\* step2.py 361-363: discover_pages raised; the row is skipped by continue,
\* before the progress save
DiscoveryInputError ==
    /\ UNCHANGED nonStageVars
    /\ st_stage = "discovery"
    /\ st_pc = "loop"
    /\ st_idx < st_inputs
    /\ st_idx' = st_idx + 1
    /\ UNCHANGED <<st_stage, st_pc, st_inputs, st_results, st_no_email, st_files, st_exit>>

\* step2.py 369-370, step3.py 355-356: the final save
CsvStageFinalSave ==
    /\ UNCHANGED nonStageVars
    /\ st_stage \in CsvStages
    /\ st_pc = "loop"
    /\ st_idx = st_inputs
    /\ st_files' = save_rows(st_files, "output", st_results)
    /\ st_pc' = "done"
    /\ st_exit' = 0
    /\ UNCHANGED <<st_stage, st_inputs, st_idx, st_results, st_no_email>>

\* streaming_pipeline.py 407-420: one school from the generator; its contacts
\* are added to all_contacts
StreamingLead ==
    /\ UNCHANGED nonStageVars
    /\ st_stage = "streaming"
    /\ st_pc = "loop"
    /\ st_idx < st_inputs
    /\ st_idx' = st_idx + 1
    /\ \E with_email, without \in 0..MaxResultsPerInput :
          /\ st_results' = st_results + with_email
          /\ st_no_email' = st_no_email + without
    /\ UNCHANGED <<st_stage, st_pc, st_inputs, st_files, st_exit>>

\* streaming_pipeline.py 427-441: the two final files
StreamingFinalWrite ==
    /\ UNCHANGED nonStageVars
    /\ st_stage = "streaming"
    /\ st_pc = "loop"
    /\ st_idx = st_inputs
    /\ st_files' = save_rows(save_rows(st_files, "output", st_results),
                             "output_no_emails", st_no_email)
    /\ st_pc' = "done"
    /\ st_exit' = 0
    /\ UNCHANGED <<st_stage, st_inputs, st_idx, st_results, st_no_email>>

\* streaming_pipeline.py 519-530: KeyboardInterrupt during the run; the
\* handler writes the partial files if there is any contact
StreamingInterrupted ==
    /\ UNCHANGED nonStageVars
    /\ st_stage = "streaming"
    /\ st_pc = "loop"
    /\ st_files' = IF st_results + st_no_email > 0
                   THEN save_rows(save_rows(st_files, "partial_output", st_results),
                                  "partial_output_no_emails", st_no_email)
                   ELSE st_files
    /\ st_pc' = "interrupted"
    /\ st_exit' = 0
    /\ UNCHANGED <<st_stage, st_inputs, st_idx, st_results, st_no_email>>

\* streaming_pipeline.py 531-534: an exception leaves run; the handler prints
\* the traceback and exits with status 1
StreamingFailed ==
    /\ UNCHANGED nonStageVars
    /\ st_stage = "streaming"
    /\ st_pc = "loop"
    /\ st_pc' = "failed"
    /\ st_exit' = 1
    /\ UNCHANGED <<st_stage, st_inputs, st_idx, st_results, st_no_email, st_files>>

StageNext ==
    \/ CsvStageInput
    \/ DiscoveryInputError
    \/ CsvStageFinalSave
    \/ StreamingLead
    \/ StreamingFinalWrite
    \/ StreamingInterrupted
    \/ StreamingFailed

\* C16: a stage that finishes with zero results has written its output file,
\* with the header row only: page discovery, content collection and the final
\* output of the streaming run.
C16_ZeroResultsHeaderOnly ==
    (st_pc = "done" /\ st_results = 0) => st_files["output"] = 0

\* C18: when the streaming run fails with an exception after contacts were
\* accumulated, the contacts accumulated so far are in an output file when the
\* process exits with a failure status.
C18_FailureFlushesContacts ==
    (st_pc = "failed" /\ st_results + st_no_email > 0) =>
        /\ st_exit = 1
        /\ \/ st_results = 0
           \/ st_files["output"] = st_results
           \/ st_files["partial_output"] = st_results
        /\ \/ st_no_email = 0
           \/ st_files["output_no_emails"] = st_no_email
           \/ st_files["partial_output_no_emails"] = st_no_email

(***************************************************************************)
(* collect_page_content (step3.py lines 233-301).  Markup is abstracted to *)
(* where it came from, whether it is the empty string, and the number of   *)
(* emails extract_emails finds in it.                                      *)
(***************************************************************************)
MaxRetries == 3
MaxEmails == 3

NoMarkup == [from |-> "none", empty |-> TRUE, emails |-> 0]
Markups(from) ==
    {[from |-> from, empty |-> TRUE, emails |-> 0]}
        \cup [from : {from}, empty : {FALSE}, emails : 0..MaxEmails]

\* len(self.extract_emails(html))
extract_emails(html) == html.emails

NoResult == [failed |-> FALSE, html |-> NoMarkup, fetch_method |-> "unknown",
             email_count |-> 0, has_emails |-> FALSE]
\* lines 281-284 and 298-300: return None
Failure == [NoResult EXCEPT !.failed = TRUE]

\* lines 281-295: the value returned for the markup and the method held
Returned(html, fetch_method) ==
    IF html = NoMarkup \/ html.empty THEN Failure
    ELSE [failed |-> FALSE, html |-> html, fetch_method |-> fetch_method,
          email_count |-> extract_emails(html),
          has_emails |-> extract_emails(html) > 0]

\* The browser fetch tried for every page, whatever the plain markup holds.
NeedsSeleniumAlways(html, use_selenium) == use_selenium

\* lines 255-260: the browser fetch is tried when the plain markup has no
\* email and use_selenium is set
NeedsSelenium(html, use_selenium) == extract_emails(html) = 0 /\ use_selenium

CollectIdle ==
    /\ cc_pc = "idle"
    /\ cc_max_retries = 0
    /\ cc_use_selenium = FALSE
    /\ cc_attempt = 0
    /\ cc_response = NoMarkup
    /\ cc_html_selenium = NoMarkup
    /\ cc_selenium_calls = 0
    /\ cc_result = NoResult

\* Both entry points build the collector with max_retries = 5; safe_get then
\* returns a response or raises, so the branch of line 272 is not taken.
CollectInit ==
    /\ cc_pc = "safe_get"
    /\ cc_max_retries \in 1..MaxRetries
    /\ cc_use_selenium \in BOOLEAN
    /\ cc_attempt = 0
    /\ cc_response = NoMarkup
    /\ cc_html_selenium = NoMarkup
    /\ cc_selenium_calls = 0
    /\ cc_result = NoResult

\* safe_get lines 114-128: an attempt fails; the last one raises, and
\* collect_page_content returns None from its except clause (298-300)
SafeGetAttemptFails ==
    /\ UNCHANGED nonCollectVars
    /\ cc_pc = "safe_get"
    /\ cc_attempt < cc_max_retries
    /\ cc_attempt' = cc_attempt + 1
    /\ IF cc_attempt' = cc_max_retries
       THEN cc_pc' = "done" /\ cc_result' = Failure
       ELSE cc_pc' = "safe_get" /\ cc_result' = cc_result
    /\ UNCHANGED <<cc_max_retries, cc_use_selenium, cc_response, cc_html_selenium,
                   cc_selenium_calls>>

\* lines 249-271: the plain fetch returns markup; either the browser fetch is
\* needed or the markup is returned
SafeGetReturns ==
    /\ UNCHANGED nonCollectVars
    /\ cc_pc = "safe_get"
    /\ cc_attempt < cc_max_retries
    /\ cc_attempt' = cc_attempt + 1
    /\ \E html \in Markups("requests") :
          /\ cc_response' = html
          /\ IF NeedsSelenium(html, cc_use_selenium)
             THEN cc_pc' = "selenium" /\ cc_result' = cc_result
             ELSE cc_pc' = "done" /\ cc_result' = Returned(html, "requests")
    /\ UNCHANGED <<cc_max_retries, cc_use_selenium, cc_html_selenium, cc_selenium_calls>>

\* lines 261-269 and 281-295: fetch_with_selenium returns markup, which
\* replaces the plain markup unless it is empty, or None
SeleniumReturns ==
    /\ UNCHANGED nonCollectVars
    /\ cc_pc = "selenium"
    /\ cc_selenium_calls' = cc_selenium_calls + 1
    /\ \E html_selenium \in Markups("selenium") \cup {NoMarkup} :
          /\ cc_html_selenium' = html_selenium
          /\ cc_result' = IF html_selenium # NoMarkup /\ ~html_selenium.empty
                          THEN Returned(html_selenium, "selenium")
                          ELSE Returned(cc_response, "requests")
    /\ cc_pc' = "done"
    /\ UNCHANGED <<cc_max_retries, cc_use_selenium, cc_attempt, cc_response>>

CollectNext ==
    \/ SafeGetAttemptFails
    \/ SafeGetReturns
    \/ SeleniumReturns

PopsEntry == c_pc = "loop" /\ LoopCondition
\* The score score_page_priority gives a URL before it is fetched.
PreFetchScore(entry) == PriorityOf[entry.url]

\* C21: at every pop of the frontier the popped entry is an entry of the
\* frontier with the highest pre-fetch priority score of all its entries, and
\* of the lowest depth among those of that score.
C21_PopsHighestPriority ==
    [][ PopsEntry =>
          /\ \E i \in 1..Len(to_visit) : to_visit[i] = last_popped'
          /\ \A i \in 1..Len(to_visit) :
                /\ PreFetchScore(last_popped') >= PreFetchScore(to_visit[i])
                /\ PreFetchScore(last_popped') = PreFetchScore(to_visit[i])
                      => last_popped'.depth <= to_visit[i].depth ]_vars

\* An entry of depth 1 was popped and its fetch failed, so nothing was pushed,
\* while the frontier holds an entry of the same score at depth 2 whose URL
\* sorts before the popped one, and an entry of a lower score.
C21_Witness ==
    /\ c_pc = "loop"
    /\ fetch_log # <<>>
    /\ fetch_log[Len(fetch_log)].url = last_popped.url
    /\ \A i \in 1..Len(discovered_pages) : discovered_pages[i].url # last_popped.url
    /\ last_popped.depth = 1
    /\ \E i \in 1..Len(to_visit) :
          /\ PreFetchScore(to_visit[i]) = PreFetchScore(last_popped)
          /\ to_visit[i].depth = 2
          /\ <<to_visit[i].url, last_popped.url>> \in UrlLess
    /\ \E i \in 1..Len(to_visit) :
          PreFetchScore(to_visit[i]) < PreFetchScore(last_popped)

\* C22: the counter of staff pages never exceeds 3; the fetch that brings it
\* to 3 pushes no link onto the frontier; and from then on no entry is popped
\* and no page is fetched.
C22_StopsAtStaffCap ==
    /\ [](staff_pages_found <= 3)
    /\ [][ /\ (staff_pages_found < 3 /\ staff_pages_found' >= 3)
                => to_visit' = Tail(to_visit)
           /\ staff_pages_found >= 3
                => UNCHANGED <<to_visit, last_popped, fetch_log, visited, discovered_pages,
                               staff_pages_found>> ]_vars

\* The third staff page was fetched above the depth limit and below the page
\* limit, with entries left in the frontier: the crawl has left the loop.
C22_Witness ==
    /\ staff_pages_found = 3
    /\ c_pc = "done"
    /\ to_visit # <<>>
    /\ Len(discovered_pages) < max_pages_per_school
    /\ last_popped.depth < max_depth
    /\ fetch_log[Len(fetch_log)].url = last_popped.url

\* The number of fetches of a URL.
TimesFetched(url) == Cardinality({ i \in 1..Len(fetch_log) : fetch_log[i].url = url })

\* C23: a fetch that fails after the retries does not end the crawl: the loop
\* goes on with the rest of the frontier; the URL is not recorded as a result,
\* is never fetched again, and no entry for it is pushed afterwards.
C23_FailedFetchAbandoned ==
    /\ [](\A url \in failed_urls :
             /\ TimesFetched(url) = 1
             /\ \A i \in 1..Len(discovered_pages) : discovered_pages[i].url # url
             /\ \A i \in 1..Len(returned) : returned[i].url # url)
    /\ [][ /\ failed_urls' # failed_urls
                => /\ c_pc' = "loop"
                   /\ to_visit' = Tail(to_visit)
                   /\ discovered_pages' = discovered_pages
           /\ \A i \in 1..Len(to_visit') :
                to_visit'[i].url \in failed_urls'
                    => \E j \in 1..Len(to_visit) : to_visit[j] = to_visit'[i] ]_vars

\* The fetch of the homepage's first link failed; the crawl went on, fetched
\* and recorded another page after it, and returned pages.
C23_Witness ==
    /\ c_pc = "done"
    /\ Len(fetch_log) >= 3
    /\ fetch_log[2].url \in failed_urls
    /\ \E i \in 1..Len(discovered_pages) : discovered_pages[i].url = fetch_log[3].url
    /\ returned # <<>>

(***************************************************************************)
(* safe_get (step2.py lines 58-77; step3.py lines 112-129 is the same      *)
(* code).  The outcome of a request is "ok", a Timeout, or another         *)
(* RequestException (raise_for_status raises an HTTPError, which is one).  *)
(***************************************************************************)
RetryCap == 5

RetryIdle ==
    /\ sg_pc = "idle"
    /\ sg_max_retries = 0
    /\ sg_attempt = 0
    /\ sg_outcomes = <<>>
    /\ sg_sleeps = <<>>

RetryInit ==
    /\ sg_pc = "loop"
    /\ sg_max_retries \in 0..RetryCap
    /\ sg_attempt = 0
    /\ sg_outcomes = <<>>
    /\ sg_sleeps = <<>>

\* A wait of one second whatever the attempt.
BackoffConstant(attempt) == 1

\* lines 68 and 74: the argument of time.sleep
Backoff(attempt) == 2 ^ attempt

\* lines 67-70 and 73-76: what follows a failed attempt
AfterFailure ==
    IF sg_attempt < sg_max_retries - 1
    THEN /\ sg_sleeps' = Append(sg_sleeps, Backoff(sg_attempt))
         /\ sg_attempt' = sg_attempt + 1
         /\ sg_pc' = "loop"
    ELSE /\ sg_pc' = "raised"
         /\ UNCHANGED <<sg_sleeps, sg_attempt>>

\* lines 60-64: the request succeeds and the response is returned
SafeGetOk ==
    /\ UNCHANGED nonRetryVars
    /\ sg_pc = "loop" /\ sg_attempt < sg_max_retries
    /\ sg_outcomes' = Append(sg_outcomes, "ok")
    /\ sg_pc' = "returned"
    /\ UNCHANGED <<sg_max_retries, sg_attempt, sg_sleeps>>

\* lines 65-70: requests.exceptions.Timeout
SafeGetTimeout ==
    /\ UNCHANGED nonRetryVars
    /\ sg_pc = "loop" /\ sg_attempt < sg_max_retries
    /\ sg_outcomes' = Append(sg_outcomes, "Timeout")
    /\ AfterFailure
    /\ UNCHANGED sg_max_retries

\* lines 71-76: any other requests.exceptions.RequestException
SafeGetRequestException ==
    /\ UNCHANGED nonRetryVars
    /\ sg_pc = "loop" /\ sg_attempt < sg_max_retries
    /\ sg_outcomes' = Append(sg_outcomes, "RequestException")
    /\ AfterFailure
    /\ UNCHANGED sg_max_retries

\* line 77: the range is exhausted without a request (max_retries is 0)
SafeGetRangeExhausted ==
    /\ UNCHANGED nonRetryVars
    /\ sg_pc = "loop" /\ ~(sg_attempt < sg_max_retries)
    /\ sg_pc' = "none"
    /\ UNCHANGED <<sg_max_retries, sg_attempt, sg_outcomes, sg_sleeps>>

RetryNext ==
    \/ SafeGetOk
    \/ SafeGetTimeout
    \/ SafeGetRequestException
    \/ SafeGetRangeExhausted

\* The failed attempts among the requests made.
FailedAttempts == { i \in 1..Len(sg_outcomes) : sg_outcomes[i] # "ok" }

\* C24: safe_get makes at most max_retries requests; it returns at the first
\* successful one and makes no request after it; the wait after the k-th
\* failed attempt (k from 0) is 2^k seconds and precedes the next request;
\* after the last failed attempt it raises, without a wait and without
\* another request.
C24_RetryWithBackoff ==
    /\ [](/\ Len(sg_outcomes) <= sg_max_retries
          /\ \A i \in 1..Len(sg_outcomes) :
                sg_outcomes[i] = "ok" => (i = Len(sg_outcomes) /\ sg_pc = "returned")
          /\ sg_pc = "returned" => sg_outcomes[Len(sg_outcomes)] = "ok"
          /\ \A k \in 1..Len(sg_sleeps) : sg_sleeps[k] = 2 ^ (k - 1)
          /\ sg_pc \in {"loop", "returned"}
                => Len(sg_sleeps) = Cardinality(FailedAttempts)
          /\ sg_pc = "raised"
                => /\ Cardinality(FailedAttempts) = sg_max_retries
                   /\ Len(sg_outcomes) = sg_max_retries
                   /\ Len(sg_sleeps) = sg_max_retries - 1
          /\ Cardinality(FailedAttempts) = sg_max_retries /\ sg_max_retries > 0
                => sg_pc = "raised")
    /\ [][ (sg_pc \in {"returned", "raised"}) => UNCHANGED retryVars ]_vars

\* Three attempts allowed and all three failed: waits of 1 and 2 seconds,
\* then the exception.
C24_Witness ==
    /\ sg_pc = "raised"
    /\ sg_max_retries = 3
    /\ sg_outcomes = <<"Timeout", "RequestException", "Timeout">>
    /\ sg_sleeps = <<1, 2>>

(***************************************************************************)
(* The links of a fetched page (step2.py lines 289-303 and extract_links,  *)
(* lines 79-126).  Here the path of a URL is kept as its characters, so    *)
(* that urljoin is computed; hrefs carry no query and no fragment.         *)
(***************************************************************************)
MaxHrefs == 2        \* a elements on the page

\* urlparse of an absolute URL without fragment
Parsed(netloc, path) == [scheme |-> "http", netloc |-> netloc, path |-> path, fragment |-> ""]
\* The string of a parsed URL.
ParsedChars(u) == Text[u.scheme] \o <<":", "/", "/">> \o Text[u.netloc] \o u.path

\* An href as written in the markup: with a host, or a path alone.
Href(netloc, path) == [netloc |-> netloc, path |-> path]

LinkHomepages ==
    { Parsed("s.org", <<>>),
      Parsed("s.org", <<"/">>),
      Parsed("s.org", <<"/","k","1","2","/">>) }

\* The pages below a homepage that the crawl can reach.
LinkPages ==
    { Parsed("s.org", <<"/","s","t","a","f","f">>),
      Parsed("s.org", <<"/","a","b","o","u","t","/","t","e","a","m">>),
      Parsed("s.org", <<"/","d","e","p","t","/">>) }

RawHrefs ==
    { Href("", <<"/","s","t","a","f","f">>),
      Href("", <<"p","e","o","p","l","e">>),
      Href("", <<"d","o","c","s","/","l","i","s","t">>),
      Href("", <<"m","e","n","u",".","p","d","f">>),
      Href("s.org", <<"/","f","a","c","u","l","t","y">>),
      Href("facebook.com", <<"/">>) }

\* The index of the last '/' of a path, 0 if there is none.
LastSlash(path) ==
    IF \E i \in 1..Len(path) : path[i] = "/"
    THEN CHOOSE i \in 1..Len(path) :
            path[i] = "/" /\ \A j \in (i + 1)..Len(path) : path[j] # "/"
    ELSE 0

\* urllib.parse.urljoin(base, url) for a base with a host and hrefs without
\* dot segments: an href with a host stands alone, a path starting with '/'
\* replaces the base's path, any other path replaces the base's last segment.
urljoin(base, href) ==
    IF href.netloc # "" THEN Parsed(href.netloc, href.path)
    ELSE IF href.path = <<>> THEN base
    ELSE IF Head(href.path) = "/" THEN [base EXCEPT !.path = href.path]
    ELSE IF base.path = <<>> THEN [base EXCEPT !.path = <<"/">> \o href.path]
    ELSE [base EXCEPT !.path = SubSeq(base.path, 1, LastSlash(base.path)) \o href.path]

\* extract_links resolving against the second argument given by the caller.
page_links(resolve_against, homepage, hrefs) ==
    { p \in { [href |-> h, link |-> CleanUrl(urljoin(resolve_against, h))] : h \in hrefs } :
         /\ p.link.netloc = homepage.netloc
         /\ ~SkipText(Lower(ParsedChars(p.link))) }

LinkIdle ==
    /\ lk_pc = "idle"
    /\ lk_base_url = EmptyUrl
    /\ lk_current_url = EmptyUrl
    /\ lk_below_limits = FALSE
    /\ lk_hrefs = {}
    /\ lk_pushed = {}

\* A page was fetched and recorded: the homepage itself or a page below it.
LinkInit ==
    /\ lk_pc = "fetched"
    /\ lk_base_url \in LinkHomepages
    /\ lk_current_url \in {lk_base_url} \cup LinkPages
    /\ lk_below_limits \in BOOLEAN
    /\ lk_hrefs \in { L \in SUBSET RawHrefs : Cardinality(L) <= MaxHrefs }
    /\ lk_pushed = {}

\* line 291: self.extract_links(base_url, response.text), with lines 86 and 95:
\* base_domain and urljoin both use the base_url passed, the homepage
extract_links_of_html(homepage, current_url, hrefs) ==
    page_links(homepage, homepage, hrefs)

\* lines 290-303: the links not visited are pushed (visited holds the
\* homepage and the page)
PushLinks ==
    /\ UNCHANGED nonLinkVars
    /\ lk_pc = "fetched" /\ lk_below_limits
    /\ lk_pushed' = { p \in extract_links_of_html(lk_base_url, lk_current_url, lk_hrefs) :
                         p.link \notin {lk_base_url, lk_current_url} }
    /\ lk_pc' = "pushed"
    /\ UNCHANGED <<lk_base_url, lk_current_url, lk_below_limits, lk_hrefs>>

\* line 290 false: at the depth or page limit no link is extracted
NoLinksAtLimit ==
    /\ UNCHANGED nonLinkVars
    /\ lk_pc = "fetched" /\ ~lk_below_limits
    /\ lk_pc' = "pushed"
    /\ UNCHANGED <<lk_base_url, lk_current_url, lk_below_limits, lk_hrefs, lk_pushed>>

LinkNext ==
    \/ PushLinks
    \/ NoLinksAtLimit

\* C25: every link pushed from a fetched page is its href resolved against
\* the URL of that page, and has the host of the homepage.
C25_LinksResolvedAgainstPage ==
    \A p \in lk_pushed :
        /\ p.link = CleanUrl(urljoin(lk_current_url, p.href))
        /\ p.link.netloc = lk_base_url.netloc

\* C26: when every attempt of the plain fetch has failed and the browser is
\* enabled, collect_page_content calls the browser fetch, and returns its
\* markup with fetch method 'selenium' if that fetch gives markup.
C26_BrowserAfterFailedFetch ==
    (/\ cc_pc = "done"
     /\ cc_attempt = cc_max_retries
     /\ cc_response = NoMarkup
     /\ cc_use_selenium)
        => /\ cc_selenium_calls = 1
           /\ (cc_html_selenium # NoMarkup /\ ~cc_html_selenium.empty)
                 => cc_result = Returned(cc_html_selenium, "selenium")

(***************************************************************************)
(* The streaming SchoolSearcher (step1_streaming.py): search_county        *)
(* (lines 307-383) and the place-details lookup of _parse_legacy_result    *)
(* (lines 145-172).  A response is abstracted to the number of its results *)
(* and whether it carries a next_page_token.                               *)
(***************************************************************************)
MaxQueries == 2           \* search terms of the county
MaxPageResults == 2       \* results in one response

MaxRequests == 5          \* no response carries a next_page_token after this many requests

\* data.get('next_page_token'): present or absent
TokenOrNot(requests) == IF requests < MaxRequests THEN BOOLEAN ELSE {FALSE}

StreamSearchIdle ==
    /\ ss_pc = "idle"
    /\ ss_global_max_api_calls = None
    /\ ss_total_api_calls = 0
    /\ ss_queries_left = 0
    /\ ss_results_left = 0
    /\ ss_next_page_token = FALSE
    /\ ss_requests = 0

StreamSearchInit ==
    /\ ss_pc = "query"
    /\ ss_global_max_api_calls \in {None} \cup 0..MaxBudget
    /\ ss_total_api_calls = 0
    /\ ss_queries_left \in 0..MaxQueries
    /\ ss_results_left = 0
    /\ ss_next_page_token = FALSE
    /\ ss_requests = 0

\* _hit_global_limit (lines 58-63)
hit_global_limit(total) ==
    ss_global_max_api_calls # None /\ total >= ss_global_max_api_calls

\* lines 373-383: the end of one iteration of the loop over the search terms
EndOfQuery(total) ==
    /\ ss_results_left' = 0
    /\ ss_next_page_token' = FALSE
    /\ IF hit_global_limit(total) \/ ss_queries_left <= 1
       THEN ss_pc' = "done" /\ ss_queries_left' = ss_queries_left
       ELSE ss_pc' = "query" /\ ss_queries_left' = ss_queries_left - 1

\* lines 307-311: the cap is reached before a search term, or no term is left
QueryAtLimit ==
    /\ UNCHANGED nonStreamSearchVars
    /\ ss_pc = "query"
    /\ ss_queries_left = 0 \/ hit_global_limit(ss_total_api_calls)
    /\ ss_pc' = "done"
    /\ UNCHANGED <<ss_global_max_api_calls, ss_total_api_calls, ss_queries_left,
                   ss_results_left, ss_next_page_token, ss_requests>>

\* lines 313-334: the text search is counted, issued, and answers with results
QueryAnswered ==
    /\ UNCHANGED nonStreamSearchVars
    /\ ss_pc = "query" /\ ss_queries_left > 0
    /\ ~hit_global_limit(ss_total_api_calls)
    /\ ss_total_api_calls' = ss_total_api_calls + 1
    /\ ss_requests' = ss_requests + 1
    /\ ss_results_left' \in 0..MaxPageResults
    /\ ss_next_page_token' \in TokenOrNot(ss_requests')
    /\ ss_pc' = "results"
    /\ UNCHANGED <<ss_global_max_api_calls, ss_queries_left>>

\* lines 313-323 and 361-378: the text search is counted and issued, and it
\* raises, or answers with an HTTP error or a status other than OK
QueryFails ==
    /\ UNCHANGED nonStreamSearchVars
    /\ ss_pc = "query" /\ ss_queries_left > 0
    /\ ~hit_global_limit(ss_total_api_calls)
    /\ ss_total_api_calls' = ss_total_api_calls + 1
    /\ ss_requests' = ss_requests + 1
    /\ EndOfQuery(ss_total_api_calls')
    /\ UNCHANGED ss_global_max_api_calls

\* _parse_legacy_result lines 120-137: no place_id, a duplicate, or a result
\* of another state: no lookup
ResultSkipped ==
    /\ UNCHANGED nonStreamSearchVars
    /\ ss_pc = "results" /\ ss_results_left > 0
    /\ ss_results_left' = ss_results_left - 1
    /\ UNCHANGED <<ss_pc, ss_global_max_api_calls, ss_total_api_calls, ss_queries_left,
                   ss_next_page_token, ss_requests>>

\* lines 147-149: at the cap the place-details lookup is skipped
DetailsAtLimit ==
    /\ UNCHANGED nonStreamSearchVars
    /\ ss_pc = "results" /\ ss_results_left > 0
    /\ hit_global_limit(ss_total_api_calls)
    /\ ss_results_left' = ss_results_left - 1
    /\ UNCHANGED <<ss_pc, ss_global_max_api_calls, ss_total_api_calls, ss_queries_left,
                   ss_next_page_token, ss_requests>>

\* lines 151-169: the lookup is issued and answers; it is counted afterwards
DetailsAnswered ==
    /\ UNCHANGED nonStreamSearchVars
    /\ ss_pc = "results" /\ ss_results_left > 0
    /\ ~hit_global_limit(ss_total_api_calls)
    /\ ss_requests' = ss_requests + 1
    /\ ss_total_api_calls' = ss_total_api_calls + 1
    /\ ss_results_left' = ss_results_left - 1
    /\ UNCHANGED <<ss_pc, ss_global_max_api_calls, ss_queries_left, ss_next_page_token>>

\* lines 151-172: requests.get or json() raises; the except clause passes
\* before the counter is reached
DetailsRaises ==
    /\ UNCHANGED nonStreamSearchVars
    /\ ss_pc = "results" /\ ss_results_left > 0
    /\ ~hit_global_limit(ss_total_api_calls)
    /\ ss_requests' = ss_requests + 1
    /\ ss_results_left' = ss_results_left - 1
    /\ UNCHANGED <<ss_pc, ss_global_max_api_calls, ss_total_api_calls, ss_queries_left,
                   ss_next_page_token>>

\* lines 336-338: the results are parsed; the follow-up is made while there
\* is a token and the cap is not reached
AfterResults ==
    /\ UNCHANGED nonStreamSearchVars
    /\ ss_pc = "results" /\ ss_results_left = 0
    /\ IF ss_next_page_token /\ ~hit_global_limit(ss_total_api_calls)
       THEN /\ ss_pc' = "page"
            /\ UNCHANGED <<ss_queries_left, ss_results_left, ss_next_page_token>>
       ELSE EndOfQuery(ss_total_api_calls)
    /\ UNCHANGED <<ss_global_max_api_calls, ss_total_api_calls, ss_requests>>

\* lines 339-355: the follow-up is counted, issued, and answers with results
PageAnswered ==
    /\ UNCHANGED nonStreamSearchVars
    /\ ss_pc = "page"
    /\ ss_total_api_calls' = ss_total_api_calls + 1
    /\ ss_requests' = ss_requests + 1
    /\ ss_results_left' \in 0..MaxPageResults
    /\ ss_next_page_token' \in TokenOrNot(ss_requests')
    /\ ss_pc' = "results"
    /\ UNCHANGED <<ss_global_max_api_calls, ss_queries_left>>

\* lines 339-359 and 376-378: the follow-up is counted and issued, and it
\* raises or answers with an error: the pagination ends
PageFails ==
    /\ UNCHANGED nonStreamSearchVars
    /\ ss_pc = "page"
    /\ ss_total_api_calls' = ss_total_api_calls + 1
    /\ ss_requests' = ss_requests + 1
    /\ EndOfQuery(ss_total_api_calls')
    /\ UNCHANGED ss_global_max_api_calls

StreamSearchNext ==
    \/ QueryAtLimit
    \/ QueryAnswered
    \/ QueryFails
    \/ ResultSkipped
    \/ DetailsAtLimit
    \/ DetailsAnswered
    \/ DetailsRaises
    \/ AfterResults
    \/ PageAnswered
    \/ PageFails

\* C27: every request issued is counted, and with a cap the number of
\* requests issued never exceeds global_max_api_calls.
C27_RequestsWithinBudget ==
    /\ ss_requests = ss_total_api_calls
    /\ ss_global_max_api_calls # None => ss_requests <= ss_global_max_api_calls

(***************************************************************************)
(* LLMParser.chunk_html (step5.py lines 165-295), on markup made of a few  *)
(* pieces: a block delimiter, a paragraph end, an '@', a letter, a blank.  *)
(***************************************************************************)
MaxPieces == 4            \* pieces in one markup string
MaxChunkSize == 8         \* max_chunk_size ranges over 1..MaxChunkSize

\* line 215: target_size = max_chunk_size - 5000
ChunkBuffer == 5000
\* lines 195-196: the context of a delimiter reaches 200 characters each way
ContextWidth == 200
\* line 278: the last resort looks back over at most 100 characters
LookBack == 100

MarkupPieces ==
    { <<"<","/","l","i",">">>, <<"<","/","p",">">>, <<"@">>, <<"x">>, <<" ">> }

\* line 187
block_delimiters ==
    << <<"<","/","l","i",">">>,
       <<"<","/","t","r",">">>,
       <<"<","/","d","i","v",">">>,
       <<"<","/","s","e","c","t","i","o","n",">">>,
       <<"<","/","a","r","t","i","c","l","e",">">>,
       <<"<","/","t","d",">">> >>
\* line 204
contact_keywords ==
    << <<"p","r","i","n","c","i","p","a","l">>,
       <<"d","i","r","e","c","t","o","r">>,
       <<"a","d","m","i","n","i","s","t","r","a","t","o","r">>,
       <<"e","m","a","i","l">>,
       <<"p","h","o","n","e">> >>
\* line 260: </p>|</br>|</h[1-6]>
safe_split_tags ==
    << <<"<","/","p",">">>,
       <<"<","/","b","r",">">>,
       <<"<","/","h","1",">">>,
       <<"<","/","h","2",">">>,
       <<"<","/","h","3",">">>,
       <<"<","/","h","4",">">>,
       <<"<","/","h","5",">">>,
       <<"<","/","h","6",">">> >>

\* s[a:b] for 0 <= a
Slice(s, a, b) == SubSeq(s, a + 1, Min(b, Len(s)))

\* The values of match.end() of the case-insensitive matches of the tags.
MatchEnds(html, tags) ==
    LET lowered == Lower(html)
    IN  { p \in 1..Len(html) :
            \E t \in 1..Len(tags) :
               /\ p >= Len(tags[t])
               /\ SubSeq(lowered, p - Len(tags[t]) + 1, p) = tags[t] }

\* lines 194-206; the pattern of a capitalised name is searched in the
\* lowered context and so never matches
has_contact_pattern(html, match_start, match_end) ==
    LET context == Lower(Slice(html, Max(0, match_start - ContextWidth),
                               Min(Len(html), match_end + ContextWidth)))
    IN  Contains(context, <<"@">>) \/ AnyIn(contact_keywords, context)

\* lines 191-208: (match.end(), has_contact_pattern) of every delimiter found
split_points(html) ==
    LET lowered == Lower(html)
        found == { pt \in (1..Len(html)) \X (1..Len(block_delimiters)) :
                     /\ pt[1] >= Len(block_delimiters[pt[2]])
                     /\ SubSeq(lowered, pt[1] - Len(block_delimiters[pt[2]]) + 1, pt[1])
                           = block_delimiters[pt[2]] }
    IN  { [pos |-> pt[1],
           contact |-> has_contact_pattern(html, pt[1] - Len(block_delimiters[pt[2]]), pt[1])] :
          pt \in found }

\* line 210: sorted by position
RECURSIVE SortByPos(_)
SortByPos(points) ==
    IF points = {} THEN <<>>
    ELSE LET first == CHOOSE x \in points : \A y \in points : x.pos <= y.pos
         IN  <<first>> \o SortByPos(points \ {first})

RECURSIVE Ascending(_)
Ascending(positions) ==
    IF positions = {} THEN <<>>
    ELSE LET first == CHOOSE x \in positions : \A y \in positions : x <= y
         IN  <<first>> \o Ascending(positions \ {first})

\* lines 212-238: the loop over the split points
RECURSIVE BuildChunks(_, _, _, _, _, _)
BuildChunks(html, max_chunk_size, points, current_chunk, last_split, chunks) ==
    IF points = <<>>
    THEN [chunks |-> chunks, current_chunk |-> current_chunk, last_split |-> last_split]
    ELSE LET split_pos == Head(points).pos
             segment == Slice(html, last_split, split_pos)
             target_size == max_chunk_size - ChunkBuffer
             rest == Tail(points)
         IN  IF Len(current_chunk) + Len(segment) > target_size /\ current_chunk # <<>>
             THEN IF Head(points).contact
                  THEN BuildChunks(html, max_chunk_size, rest, segment, split_pos,
                                   Append(chunks, current_chunk))
                  ELSE IF 10 * Len(current_chunk) < 8 * max_chunk_size
                  THEN BuildChunks(html, max_chunk_size, rest, current_chunk \o segment,
                                   last_split, chunks)
                  ELSE BuildChunks(html, max_chunk_size, rest, segment, split_pos,
                                   Append(chunks, current_chunk))
             ELSE BuildChunks(html, max_chunk_size, rest, current_chunk \o segment,
                              split_pos, chunks)

\* lines 259-268: the split at paragraph ends
RECURSIVE SafeSplit(_, _, _, _, _)
SafeSplit(html, max_chunk_size, split_positions, last_pos, chunks) ==
    IF split_positions = <<>>
    THEN IF last_pos < Len(html)
         THEN Append(chunks, Slice(html, last_pos, Len(html)))
         ELSE chunks
    ELSE LET pos == Head(split_positions)
         IN  IF pos - last_pos > max_chunk_size
             THEN SafeSplit(html, max_chunk_size, Tail(split_positions), pos,
                            Append(chunks, Slice(html, last_pos, pos)))
             ELSE SafeSplit(html, max_chunk_size, Tail(split_positions), last_pos, chunks)

\* lines 271-283: the chunk cut at i; the assignment to the loop variable i
\* at line 281 does not change where the next chunk starts
LastResortChunk(html, max_chunk_size, i) ==
    LET chunk == Slice(html, i, i + max_chunk_size)
        breaks == { j \in (Max(0, Len(chunk) - LookBack) + 1)..(Len(chunk) - 1) :
                       chunk[j + 1] \in {">", "\n", " "} }
    IN  IF i + max_chunk_size < Len(html) /\ breaks # {}
        THEN Slice(html, i, i + (CHOOSE j \in breaks : \A k \in breaks : k <= j) + 1)
        ELSE chunk
LastResort(html, max_chunk_size) ==
    [ n \in 1..((Len(html) + max_chunk_size - 1) \div max_chunk_size) |->
        LastResortChunk(html, max_chunk_size, (n - 1) * max_chunk_size) ]

\* lines 290-291: chunk[i:i + max_chunk_size] for i in range(0, len(chunk), max_chunk_size)
Slices(chunk, max_chunk_size) ==
    [ n \in 1..((Len(chunk) + max_chunk_size - 1) \div max_chunk_size) |->
        Slice(chunk, (n - 1) * max_chunk_size, n * max_chunk_size) ]

RECURSIVE SplitOversized(_, _)
SplitOversized(chunks, max_chunk_size) ==
    IF chunks = <<>> THEN <<>>
    ELSE (IF Len(Head(chunks)) > max_chunk_size
          THEN Slices(Head(chunks), max_chunk_size) ELSE <<>>)
           \o SplitOversized(Tail(chunks), max_chunk_size)

\* lines 286-293: the else belongs to the for statement, so the loop appends
\* the slices of the oversized chunks only, and the else clause then appends
\* the last chunk of the list
final_chunks(chunks, max_chunk_size) ==
    SplitOversized(chunks, max_chunk_size) \o <<chunks[Len(chunks)]>>

RECURSIVE chunk_html(_, _)
\* lines 240-255: the content after the last split point
AddRemaining(html, max_chunk_size, built) ==
    IF built.current_chunk = <<>> THEN built.chunks
    ELSE LET remaining == Slice(html, built.last_split, Len(html))
         IN  IF Len(built.current_chunk) + Len(remaining) <= max_chunk_size
             THEN Append(built.chunks, built.current_chunk \o remaining)
             ELSE Append(built.chunks, built.current_chunk)
                    \o (IF Len(remaining) > max_chunk_size
                        THEN chunk_html(remaining, max_chunk_size)
                        ELSE <<remaining>>)

chunk_html(html, max_chunk_size) ==
    IF html = <<>> \/ Len(html) <= max_chunk_size THEN <<html>>
    ELSE LET built == BuildChunks(html, max_chunk_size, SortByPos(split_points(html)),
                                  <<>>, 0, <<>>)
             with_remaining == AddRemaining(html, max_chunk_size, built)
             split_positions == Ascending(MatchEnds(html, safe_split_tags))
             chunks == IF with_remaining # <<>> THEN with_remaining
                       ELSE IF split_positions # <<>>
                       THEN SafeSplit(html, max_chunk_size, split_positions, 0, <<>>)
                       ELSE LastResort(html, max_chunk_size)
             final == final_chunks(chunks, max_chunk_size)
         IN  IF final # <<>> THEN final ELSE <<html>>

ChunkIdle ==
    /\ ch_pc = "idle"
    /\ ch_html = <<>>
    /\ ch_max_chunk_size = 0
    /\ ch_chunks = <<>>

ChunkInit ==
    /\ ch_pc = "call"
    /\ ch_html \in { Flatten(pieces) : pieces \in SeqsUpTo(MarkupPieces, MaxPieces) }
    /\ ch_max_chunk_size \in 1..MaxChunkSize
    /\ ch_chunks = <<>>

ChunkHtml ==
    /\ UNCHANGED nonChunkVars
    /\ ch_pc = "call"
    /\ ch_chunks' = chunk_html(ch_html, ch_max_chunk_size)
    /\ ch_pc' = "done"
    /\ UNCHANGED <<ch_html, ch_max_chunk_size>>

ChunkNext == ChunkHtml

\* C28: every chunk returned by chunk_html has at most max_chunk_size
\* characters.
C28_ChunksWithinMax ==
    ch_pc = "done" => \A i \in 1..Len(ch_chunks) : Len(ch_chunks[i]) <= ch_max_chunk_size

\* C29: the chunks returned by chunk_html, concatenated in order, are the
\* markup given.
C29_ChunksConcatenateToInput ==
    ch_pc = "done" => Flatten(ch_chunks) = ch_html

(***************************************************************************)
(* StreamingPipeline.run (streaming_pipeline.py lines 407-441) with        *)
(* process_single_lead (lines 174-193) and the per-page deduplication of   *)
(* _parse_content_with_llm (lines 332-342).  A contact is its first name,  *)
(* last name, email and school name; a page gives the contacts left by the *)
(* title filter.                                                           *)
(***************************************************************************)
MaxRunSchools == 2        \* schools yielded by the generator
MaxLeadPages == 2         \* pages collected for one school
MaxPageContacts == 2      \* contacts left by the title filter on one page

RunSchoolNames == << <<"A">>, <<"B">> >>

\* The contacts a page of a school can give: one person, written in two
\* ways, with or without an email.  The email None is held as the empty
\* string: line 300 makes it None or a non-empty string, and every use reads
\* (email or '').
PageContacts(school_name) ==
    [ first_name : { <<"J","o">>, <<"j","o">> },
      last_name : { <<"D">> },
      email : { <<>>, <<"a","@","x">> },
      school_name : { school_name } ]

\* shared/models.py Contact.has_email
has_email(contact) == contact.email # <<>> /\ Strip(contact.email) # <<>>

\* shared/models.py Contact.full_name
full_name(contact) ==
    LET first == IF Strip(contact.first_name) # <<>> THEN <<contact.first_name>> ELSE <<>>
        last == IF Strip(contact.last_name) # <<>> THEN <<contact.last_name>> ELSE <<>>
        parts == first \o last
    IN  Strip(IF Len(parts) = 2 THEN parts[1] \o <<" ">> \o parts[2]
              ELSE IF Len(parts) = 1 THEN parts[1] ELSE <<>>)

\* line 337: (contact.email or '').lower() or contact.full_name().lower()
page_key(contact) ==
    LET email == Lower(contact.email)
    IN  IF email # <<>> THEN email ELSE Lower(full_name(contact))

\* lines 334-341: the first contact of every key of the page
RECURSIVE unique_contacts(_, _)
unique_contacts(filtered_contacts, seen) ==
    IF filtered_contacts = <<>> THEN <<>>
    ELSE LET contact == Head(filtered_contacts)
             key == page_key(contact)
         IN  IF key # <<>> /\ key \notin seen
             THEN <<contact>> \o unique_contacts(Tail(filtered_contacts), seen \cup {key})
             ELSE unique_contacts(Tail(filtered_contacts), seen)

RECURSIVE Select(_, _)
\* [c for c in self.all_contacts if c.has_email()] and its complement
Select(contacts, with_email) ==
    IF contacts = <<>> THEN <<>>
    ELSE (IF has_email(Head(contacts)) = with_email THEN <<Head(contacts)>> ELSE <<>>)
           \o Select(Tail(contacts), with_email)

RunIdle ==
    /\ rn_pc = "idle"
    /\ rn_schools_left = 0
    /\ rn_school_name = <<>>
    /\ rn_pages_left = 0
    /\ rn_lead_contacts = <<>>
    /\ rn_all_contacts = <<>>
    /\ rn_written = <<>>

RunInit ==
    /\ rn_pc = "generator"
    /\ rn_schools_left \in 0..MaxRunSchools
    /\ rn_school_name = <<>>
    /\ rn_pages_left = 0
    /\ rn_lead_contacts = <<>>
    /\ rn_all_contacts = <<>>
    /\ rn_written = <<>>

\* lines 407-412 and process_single_lead up to line 172: the next school and
\* its collected pages; without pages the lead returns no contact
RunNextSchool ==
    /\ UNCHANGED nonRunVars
    /\ rn_pc = "generator" /\ rn_schools_left > 0
    /\ rn_school_name' = RunSchoolNames[rn_schools_left]
    /\ rn_pages_left' \in 0..MaxLeadPages
    /\ rn_lead_contacts' = <<>>
    /\ rn_pc' = "lead"
    /\ UNCHANGED <<rn_schools_left, rn_all_contacts, rn_written>>

\* lines 176-180 with 332-342: the contacts of one page, deduplicated within
\* the page, are added to the lead's contacts
RunParsePage ==
    /\ UNCHANGED nonRunVars
    /\ rn_pc = "lead" /\ rn_pages_left > 0
    /\ \E filtered_contacts \in SeqsUpTo(PageContacts(rn_school_name), MaxPageContacts) :
          rn_lead_contacts' = rn_lead_contacts \o unique_contacts(filtered_contacts, {})
    /\ rn_pages_left' = rn_pages_left - 1
    /\ UNCHANGED <<rn_pc, rn_schools_left, rn_school_name, rn_all_contacts, rn_written>>

\* lines 193 and 415: the lead returns and its contacts are added to
\* self.all_contacts
RunLeadReturns ==
    /\ UNCHANGED nonRunVars
    /\ rn_pc = "lead" /\ rn_pages_left = 0
    /\ rn_all_contacts' = rn_all_contacts \o rn_lead_contacts
    /\ rn_lead_contacts' = <<>>
    /\ rn_schools_left' = rn_schools_left - 1
    /\ rn_pc' = "generator"
    /\ UNCHANGED <<rn_school_name, rn_pages_left, rn_written>>

\* lines 427-441: the contacts with an email go to one file, the others to
\* the other file
RunWriteFinal ==
    /\ UNCHANGED nonRunVars
    /\ rn_pc = "generator" /\ rn_schools_left = 0
    /\ rn_written' = Select(rn_all_contacts, TRUE) \o Select(rn_all_contacts, FALSE)
    /\ rn_pc' = "done"
    /\ UNCHANGED <<rn_schools_left, rn_school_name, rn_pages_left, rn_lead_contacts,
                   rn_all_contacts>>

RunNext ==
    \/ RunNextSchool
    \/ RunParsePage
    \/ RunLeadReturns
    \/ RunWriteFinal

\* The normalized (first name, last name, organization name) of a contact.
PersonKey(contact) ==
    <<Strip(Lower(contact.first_name)), Strip(Lower(contact.last_name)),
      Strip(Lower(contact.school_name))>>

\* C30: no two contacts written to the final output of a run have the same
\* normalized first name, last name and organization name.
C30_WrittenContactsDeduplicated ==
    \A i, j \in 1..Len(rn_written) :
        i # j => PersonKey(rn_written[i]) # PersonKey(rn_written[j])

(***************************************************************************)
(* Specifications                                                          *)
(***************************************************************************)
SearchIdle ==
    /\ global_max_api_calls = None
    /\ args = CHOOSE a \in MainArgs : TRUE
    /\ total_api_calls = 0
    /\ seen_place_ids = {}
    /\ all_schools = <<>>
    /\ schools = <<>>
    /\ county_api_calls = 0
    /\ query_idx = 1
    /\ n_terms = 0
    /\ per_county_api_limit = None
    /\ sc_max_api_calls = None
    /\ county_idx = 1
    /\ n_counties = 0
    /\ calls_per_county = 0
    /\ spc = "idle"
    /\ driver = "none"
    /\ output_file = [written |-> FALSE, rows |-> <<>>]
    /\ requests_issued = 0
    /\ fed_ids = {}
    /\ trimmed = FALSE
    /\ dup_skips = FALSE

\* The crawls of the termination check: the page caps below the largest one keep
\* the graph of behaviours small.
CrawlLiveInit ==
    /\ CrawlInit
    /\ max_pages_per_school < MaxPagesCap

\* A component starts; the others are idle.
SearchSpecInit ==
    /\ SearchInit
    /\ CrawlIdle
    /\ FilterIdle
    /\ PipeIdle
    /\ ScoreIdle
    /\ PhoneIdle
    /\ CompileIdle
    /\ StageIdle
    /\ CollectIdle
    /\ RetryIdle
    /\ LinkIdle
    /\ StreamSearchIdle
    /\ ChunkIdle
    /\ RunIdle
CrawlSpecInit ==
    /\ CrawlInit
    /\ SearchIdle
    /\ FilterIdle
    /\ PipeIdle
    /\ ScoreIdle
    /\ PhoneIdle
    /\ CompileIdle
    /\ StageIdle
    /\ CollectIdle
    /\ RetryIdle
    /\ LinkIdle
    /\ StreamSearchIdle
    /\ ChunkIdle
    /\ RunIdle
CrawlLiveSpecInit ==
    /\ CrawlLiveInit
    /\ SearchIdle
    /\ FilterIdle
    /\ PipeIdle
    /\ ScoreIdle
    /\ PhoneIdle
    /\ CompileIdle
    /\ StageIdle
    /\ CollectIdle
    /\ RetryIdle
    /\ LinkIdle
    /\ StreamSearchIdle
    /\ ChunkIdle
    /\ RunIdle
FilterSpecInit ==
    /\ FilterInit
    /\ SearchIdle
    /\ CrawlIdle
    /\ PipeIdle
    /\ ScoreIdle
    /\ PhoneIdle
    /\ CompileIdle
    /\ StageIdle
    /\ CollectIdle
    /\ RetryIdle
    /\ LinkIdle
    /\ StreamSearchIdle
    /\ ChunkIdle
    /\ RunIdle
PipeSpecInit ==
    /\ PipeInit
    /\ SearchIdle
    /\ CrawlIdle
    /\ FilterIdle
    /\ ScoreIdle
    /\ PhoneIdle
    /\ CompileIdle
    /\ StageIdle
    /\ CollectIdle
    /\ RetryIdle
    /\ LinkIdle
    /\ StreamSearchIdle
    /\ ChunkIdle
    /\ RunIdle
ScoreSpecInit ==
    /\ ScoreInit
    /\ SearchIdle
    /\ CrawlIdle
    /\ FilterIdle
    /\ PipeIdle
    /\ PhoneIdle
    /\ CompileIdle
    /\ StageIdle
    /\ CollectIdle
    /\ RetryIdle
    /\ LinkIdle
    /\ StreamSearchIdle
    /\ ChunkIdle
    /\ RunIdle
PhoneSpecInit ==
    /\ PhoneInit
    /\ SearchIdle
    /\ CrawlIdle
    /\ FilterIdle
    /\ PipeIdle
    /\ ScoreIdle
    /\ CompileIdle
    /\ StageIdle
    /\ CollectIdle
    /\ RetryIdle
    /\ LinkIdle
    /\ StreamSearchIdle
    /\ ChunkIdle
    /\ RunIdle
CompileSpecInit ==
    /\ CompileInit
    /\ SearchIdle
    /\ CrawlIdle
    /\ FilterIdle
    /\ PipeIdle
    /\ ScoreIdle
    /\ PhoneIdle
    /\ StageIdle
    /\ CollectIdle
    /\ RetryIdle
    /\ LinkIdle
    /\ StreamSearchIdle
    /\ ChunkIdle
    /\ RunIdle
StageSpecInit ==
    /\ StageInit
    /\ SearchIdle
    /\ CrawlIdle
    /\ FilterIdle
    /\ PipeIdle
    /\ ScoreIdle
    /\ PhoneIdle
    /\ CompileIdle
    /\ CollectIdle
    /\ RetryIdle
    /\ LinkIdle
    /\ StreamSearchIdle
    /\ ChunkIdle
    /\ RunIdle
CollectSpecInit ==
    /\ CollectInit
    /\ SearchIdle
    /\ CrawlIdle
    /\ FilterIdle
    /\ PipeIdle
    /\ ScoreIdle
    /\ PhoneIdle
    /\ CompileIdle
    /\ StageIdle
    /\ RetryIdle
    /\ LinkIdle
    /\ StreamSearchIdle
    /\ ChunkIdle
    /\ RunIdle
RetrySpecInit ==
    /\ RetryInit
    /\ SearchIdle
    /\ CrawlIdle
    /\ FilterIdle
    /\ PipeIdle
    /\ ScoreIdle
    /\ PhoneIdle
    /\ CompileIdle
    /\ StageIdle
    /\ CollectIdle
    /\ LinkIdle
    /\ StreamSearchIdle
    /\ ChunkIdle
    /\ RunIdle
LinkSpecInit ==
    /\ LinkInit
    /\ SearchIdle
    /\ CrawlIdle
    /\ FilterIdle
    /\ PipeIdle
    /\ ScoreIdle
    /\ PhoneIdle
    /\ CompileIdle
    /\ StageIdle
    /\ CollectIdle
    /\ RetryIdle
    /\ StreamSearchIdle
    /\ ChunkIdle
    /\ RunIdle
StreamSearchSpecInit ==
    /\ StreamSearchInit
    /\ SearchIdle
    /\ CrawlIdle
    /\ FilterIdle
    /\ PipeIdle
    /\ ScoreIdle
    /\ PhoneIdle
    /\ CompileIdle
    /\ StageIdle
    /\ CollectIdle
    /\ RetryIdle
    /\ LinkIdle
    /\ ChunkIdle
    /\ RunIdle
ChunkSpecInit ==
    /\ ChunkInit
    /\ SearchIdle
    /\ CrawlIdle
    /\ FilterIdle
    /\ PipeIdle
    /\ ScoreIdle
    /\ PhoneIdle
    /\ CompileIdle
    /\ StageIdle
    /\ CollectIdle
    /\ RetryIdle
    /\ LinkIdle
    /\ StreamSearchIdle
    /\ RunIdle
RunSpecInit ==
    /\ RunInit
    /\ SearchIdle
    /\ CrawlIdle
    /\ FilterIdle
    /\ PipeIdle
    /\ ScoreIdle
    /\ PhoneIdle
    /\ CompileIdle
    /\ StageIdle
    /\ CollectIdle
    /\ RetryIdle
    /\ LinkIdle
    /\ StreamSearchIdle
    /\ ChunkIdle

\* A run of step1.py.
SearchSpec ==
    /\ SearchSpecInit
    /\ [][SearchNext]_vars

\* One call of discover_pages.
CrawlSpec ==
    /\ CrawlSpecInit
    /\ [][CrawlNext]_vars

\* A call of discover_pages runs on: an iteration that can be taken is taken.
CrawlLive ==
    /\ CrawlLiveSpecInit
    /\ [][CrawlNext]_vars
    /\ WF_vars(CrawlNext)

\* One organization before one of the two filters.
FilterSpec ==
    /\ FilterSpecInit
    /\ [][FilterNext]_vars

\* One organization through page discovery and the stages after it.
PipeSpec ==
    /\ PipeSpecInit
    /\ [][PipeNext]_vars

\* calculate_confidence_score on two rows of a data frame.
ScoreSpec ==
    /\ ScoreSpecInit
    /\ [][ScoreNext]_vars


\* format_phone applied to a phone and to its own result.
PhoneSpec ==
    /\ PhoneSpecInit
    /\ [][PhoneNext]_vars


\* One run of compile_final_csv.
CompileSpec ==
    /\ CompileSpecInit
    /\ [][CompileNext]_vars


\* One run of a stage that writes an output file.
StageSpec ==
    /\ StageSpecInit
    /\ [][StageNext]_vars


\* One call of collect_page_content.
CollectSpec ==
    /\ CollectSpecInit
    /\ [][CollectNext]_vars


\* One call of safe_get.
RetrySpec ==
    /\ RetrySpecInit
    /\ [][RetryNext]_vars


\* The link step of one iteration of discover_pages.
LinkSpec ==
    /\ LinkSpecInit
    /\ [][LinkNext]_vars


\* One search_county of the streaming searcher.
StreamSearchSpec ==
    /\ StreamSearchSpecInit
    /\ [][StreamSearchNext]_vars


\* One call of chunk_html.
ChunkSpec ==
    /\ ChunkSpecInit
    /\ [][ChunkNext]_vars


\* One run of the streaming pipeline, contact by contact.
RunSpec ==
    /\ RunSpecInit
    /\ [][RunNext]_vars

=============================================================================
